---- MODULE Spec2Model ----
(***************************************************************************)
(* Plan / Task data model of the project manager (src/pm/core/task.py,     *)
(* src/pm/core/plan.py) and its dependency Validator                       *)
(* (src/pm/core/validator.py).                                             *)
(*                                                                         *)
(* Timestamps: get_timestamp() is datetime.now().isoformat(); a timestamp  *)
(* is modelled by the reading of a logical clock `now` that starts at 1    *)
(* and advances by one with every mutating call, so every reading taken in *)
(* one call is the same instant and later calls read later instants.  An   *)
(* unset (None) timestamp is NoTime.  An absent (None) string is None.     *)
(***************************************************************************)
EXTENDS Integers, Sequences, FiniteSets, TLC

VARIABLES
    tasks,   \* Plan._tasks: the plan's ordered list of Task objects
    plan,    \* the Plan object's own fields
    now,     \* the wall clock read by get_timestamp()
    ret,     \* the last call: its name, arguments, return value, prior state
    disk     \* the task files of the plan's tasks directory: name and content

vars == <<tasks, plan, now, ret, disk>>

----------------------------------------------------------------------------
(* Bounds of the model *)

\* last instant at which a mutating call of a Task may happen (SpecTask)
MaxTime == 4

\* largest number of tasks in a task list handed to the Validator
MaxTasks == 3

\* largest number of tasks of a plan under Plan calls (SpecPlan), and the
\* last instant at which a Plan call may happen
MaxPlanTasks == 4
MaxPlanTime == 3

\* largest number of objectives, and of deliverables, the edit wizard is
\* asked to give a plan
MaxPlanItems == 1

\* largest number of tasks in a list whose every status and requires list
\* is enumerated (SpecReady)
MaxReadyTasks == 2

\* largest number of tasks of a plan whose tasks and whose own fields are
\* both changed by calls (SpecOwned)
MaxOwnedTasks == 2

\* sys.getrecursionlimit() of the interpreter, which no call of the
\* repository changes: a frame that would lie deeper raises RecursionError
RecursionLimit == 1000

\* the depth of the frame of a function called from the code of a script,
\* which runs in the frame of depth 1
CalledFromScript == 2

\* largest number of tasks of a plan handed to validate_plan with every
\* name, status and dependency kind enumerated (SpecValidate)
MaxValidateTasks == 2

\* number of distinct task ids handed to Plan.add_task and given to the
\* tasks `pm task create` makes, and the last instant at which a call or a
\* command that reads the clock is run (SpecStore)
MaxStoreTasks == 2
MaxStoreTime == 2

\* number of tasks whose requires and blocks lists are edited, and the last
\* instant at which an edit may change a list (SpecDeps)
MaxDepTasks == 2
MaxDepTime == 3

\* largest number of tasks of a plan whose objects are serialised, and the
\* last instant at which a call may change one of them (SpecSerial)
MaxSerialTasks == 2
MaxSerialTime == 2

\* largest number of tasks of a plan whose statuses are changed by calls
\* that follow the start discipline and calls that do not (SpecDiscipline),
\* and the last instant at which such a call is made
MaxDisciplineTasks == 3
MaxDisciplineTime == 2

\* largest number of tasks of a stored plan worked to its end by the task
\* commands (SpecFinish), and the last instant at which a command is run on
\* a task that is not suggested
MaxFinishTasks == 2
MaxFinishTime == 2

\* number of task file names of the tasks directory read by load_tasks
\* (SpecLoad); ids stay below t10, so that names sort as their numbers
MaxLoadTasks == 3

----------------------------------------------------------------------------
(* Enumerations and optional values *)

NoTime == 0
None == "None"

\* A member of an enumeration is written as its name and its value, the
\* lowercase string the class body binds to the name.  TaskStatus and
\* PlanStatus are both `(str, Enum)`, so members of the two classes with
\* one value compare equal; they are one member here
PENDING == [name |-> "PENDING", value |-> "pending"]
READY == [name |-> "READY", value |-> "ready"]
EXECUTING == [name |-> "EXECUTING", value |-> "executing"]
COMPLETED == [name |-> "COMPLETED", value |-> "completed"]
FAILED == [name |-> "FAILED", value |-> "failed"]
BLOCKED == [name |-> "BLOCKED", value |-> "blocked"]

TaskStatus == {PENDING, READY, EXECUTING, COMPLETED, FAILED, BLOCKED}

CRITICAL == [name |-> "CRITICAL", value |-> "critical"]
HIGH == [name |-> "HIGH", value |-> "high"]
MEDIUM == [name |-> "MEDIUM", value |-> "medium"]
LOW == [name |-> "LOW", value |-> "low"]

TaskPriority == {CRITICAL, HIGH, MEDIUM, LOW}

DRAFT == [name |-> "DRAFT", value |-> "draft"]
APPROVED == [name |-> "APPROVED", value |-> "approved"]
CANCELLED == [name |-> "CANCELLED", value |-> "cancelled"]

PlanStatus == {DRAFT, PENDING, APPROVED, EXECUTING, COMPLETED, FAILED, CANCELLED}

\* str(member): __str__ returns self.value
str(member) == member.value

\* cls(value), the call of an enumeration class on a string: the exception
\* raised, None when the string is the value of a member
Enum_raises(cls, value) ==
    IF \E m \in cls : m.value = value THEN None ELSE "ValueError"

\* cls(value) when it returns: the member of that value
Enum(cls, value) == CHOOSE m \in cls : m.value = value

Min(a, b) == IF a <= b THEN a ELSE b
Max(a, b) == IF a >= b THEN a ELSE b

\* the progress values handed to Task.update_progress
ProgressInputs == {-1, 0, 50, 100, 101}

----------------------------------------------------------------------------
(* Task *)

get_timestamp == now

\* Task(id=..., order=..., title=..., priority=..., requires=..., blocks=...)
\* followed by __post_init__, which stamps created_at and updated_at; the
\* other fields take their defaults (estimated_hours 0.0 is written 0)
Task(id, order, title, priority, status, requires, blocks) ==
    [ id |-> id, order |-> order,
      created_at |-> get_timestamp, updated_at |-> get_timestamp,
      title |-> title, description |-> "", priority |-> priority,
      estimated_hours |-> 0,
      status |-> status, started_at |-> NoTime, completed_at |-> NoTime,
      progress |-> 0,
      requires |-> requires, blocks |-> blocks,
      assigned_to |-> None, notes |-> "", artifacts |-> <<>> ]

\* mutant: started_at is stamped on every entry into EXECUTING
Task_update_status_restamp(self, new_status) ==
    LET s1 == [self EXCEPT !.status = new_status, !.updated_at = get_timestamp]
        s2 == IF new_status = EXECUTING
              THEN [s1 EXCEPT !.started_at = get_timestamp] ELSE s1
        s3 == IF new_status \in {COMPLETED, FAILED}
              THEN [s2 EXCEPT !.completed_at = get_timestamp,
                              !.progress = IF new_status = COMPLETED
                                           THEN 100 ELSE @]
              ELSE s2
    IN  s3

\* mutant: FAILED also forces progress to 100
Task_update_status_failed100(self, new_status) ==
    LET s1 == [self EXCEPT !.status = new_status, !.updated_at = get_timestamp]
        s2 == IF new_status = EXECUTING /\ s1.started_at = NoTime
              THEN [s1 EXCEPT !.started_at = get_timestamp] ELSE s1
        s3 == IF new_status \in {COMPLETED, FAILED}
              THEN [s2 EXCEPT !.completed_at = get_timestamp, !.progress = 100]
              ELSE s2
    IN  s3

Task_update_status(self, new_status) ==
    LET s1 == [self EXCEPT !.status = new_status, !.updated_at = get_timestamp]
        s2 == IF new_status = EXECUTING /\ s1.started_at = NoTime
              THEN [s1 EXCEPT !.started_at = get_timestamp] ELSE s1
        s3 == IF new_status \in {COMPLETED, FAILED}
              THEN [s2 EXCEPT !.completed_at = get_timestamp,
                              !.progress = IF new_status = COMPLETED
                                           THEN 100 ELSE @]
              ELSE s2
    IN  s3

\* mutant: the cascade into COMPLETED is skipped for a FAILED task
Task_update_progress_guard(self, progress) ==
    LET s1 == [self EXCEPT !.progress = Max(0, Min(100, progress)),
                           !.updated_at = get_timestamp]
    IN  IF s1.progress = 100 /\ s1.status \notin {COMPLETED, FAILED}
        THEN Task_update_status(s1, COMPLETED)
        ELSE s1

\* mutant: full progress writes the status without going through
\* update_status
Task_update_progress_direct(self, progress) ==
    LET s1 == [self EXCEPT !.progress = Max(0, Min(100, progress)),
                           !.updated_at = get_timestamp]
    IN  IF s1.progress = 100 /\ s1.status # COMPLETED
        THEN [s1 EXCEPT !.status = COMPLETED]
        ELSE s1

\* mutant: the upper clamp is missing
Task_update_progress_noclamp(self, progress) ==
    LET s1 == [self EXCEPT !.progress = Max(0, progress),
                           !.updated_at = get_timestamp]
    IN  IF s1.progress = 100 /\ s1.status # COMPLETED
        THEN Task_update_status(s1, COMPLETED)
        ELSE s1

Task_update_progress(self, progress) ==
    LET s1 == [self EXCEPT !.progress = Max(0, Min(100, progress)),
                           !.updated_at = get_timestamp]
    IN  IF s1.progress = 100 /\ s1.status # COMPLETED
        THEN Task_update_status(s1, COMPLETED)
        ELSE s1

\* list.remove(x): the list without the first occurrence of x
Remove(seq, x) ==
    LET RECURSIVE walk(_)
        walk(k) == IF k > Len(seq) THEN seq
                   ELSE IF seq[k] = x
                   THEN SubSeq(seq, 1, k - 1) \o SubSeq(seq, k + 1, Len(seq))
                   ELSE walk(k + 1)
    IN  walk(1)

\* `x in list`
InList(seq, x) == \E k \in DOMAIN seq : seq[k] = x

\* mutant: the id is appended without looking for it in the list
Task_add_dependency_dup(self, task_id) ==
    [self EXCEPT !.requires = Append(@, task_id), !.updated_at = get_timestamp]

Task_add_dependency(self, task_id) ==
    IF ~InList(self.requires, task_id)
    THEN [self EXCEPT !.requires = Append(@, task_id), !.updated_at = get_timestamp]
    ELSE self

Task_add_blocker(self, task_id) ==
    IF ~InList(self.blocks, task_id)
    THEN [self EXCEPT !.blocks = Append(@, task_id), !.updated_at = get_timestamp]
    ELSE self

Task_remove_dependency(self, task_id) ==
    IF InList(self.requires, task_id)
    THEN [self EXCEPT !.requires = Remove(@, task_id), !.updated_at = get_timestamp]
    ELSE self

Task_assign(self, assignee) ==
    [self EXCEPT !.assigned_to = assignee, !.updated_at = get_timestamp]

Task_add_artifact(self, artifact_path) ==
    IF ~InList(self.artifacts, artifact_path)
    THEN [self EXCEPT !.artifacts = Append(@, artifact_path),
                      !.updated_at = get_timestamp]
    ELSE self

\* `if self.notes` is false for the empty string only
Task_add_notes(self, note) ==
    [self EXCEPT !.notes = IF @ # "" THEN @ \o "\n\n" \o note ELSE note,
                 !.updated_at = get_timestamp]

----------------------------------------------------------------------------
(* Plan *)

\* Plan(name=...) followed by __post_init__
Plan(name) ==
    [ id |-> "plan-uuid", name |-> name, version |-> "1.0.0",
      created_at |-> get_timestamp, updated_at |-> get_timestamp,
      author |-> None, tags |-> <<>>,
      brief |-> "", objectives |-> <<>>, deliverables |-> <<>>,
      status |-> DRAFT, is_approved |-> FALSE,
      approved_by |-> None, approved_at |-> NoTime,
      started_at |-> NoTime, completed_at |-> NoTime, progress |-> 0,
      _config |-> None ]

\* mutant: EXECUTING stamps started_at every time, and CANCELLED leaves
\* completed_at alone
Plan_update_status_restamp(self, new_status) ==
    LET s1 == [self EXCEPT !.status = new_status, !.updated_at = get_timestamp]
        s2 == IF new_status = EXECUTING
              THEN [s1 EXCEPT !.started_at = get_timestamp] ELSE s1
        s3 == IF new_status \in {COMPLETED, FAILED}
              THEN [s2 EXCEPT !.completed_at = get_timestamp,
                              !.progress = IF new_status = COMPLETED
                                           THEN 100 ELSE @]
              ELSE s2
    IN  s3

Plan_update_status(self, new_status) ==
    LET s1 == [self EXCEPT !.status = new_status, !.updated_at = get_timestamp]
        s2 == IF new_status = EXECUTING /\ s1.started_at = NoTime
              THEN [s1 EXCEPT !.started_at = get_timestamp] ELSE s1
        s3 == IF new_status \in {COMPLETED, FAILED, CANCELLED}
              THEN [s2 EXCEPT !.completed_at = get_timestamp,
                              !.progress = IF new_status = COMPLETED
                                           THEN 100 ELSE @]
              ELSE s2
    IN  s3

\* mutant: a plan that is already finished is not approved again
Plan_approve_open(self, approved_by) ==
    IF self.status \in {COMPLETED, FAILED, CANCELLED} THEN self
    ELSE [self EXCEPT !.is_approved = TRUE, !.approved_by = approved_by,
                      !.approved_at = get_timestamp, !.status = APPROVED,
                      !.updated_at = get_timestamp]

Plan_approve(self, approved_by) ==
    [self EXCEPT !.is_approved = TRUE, !.approved_by = approved_by,
                 !.approved_at = get_timestamp, !.status = APPROVED,
                 !.updated_at = get_timestamp]

\* sum(1 for task in self._tasks if task.status == TaskStatus.COMPLETED)
completed_count(plan_tasks) ==
    Cardinality({k \in DOMAIN plan_tasks : plan_tasks[k].status = COMPLETED})

\* the (count, total) pairs with total <= 100 for which the floating-point
\* product (count / total) * 100 falls just below the exact quotient
FloatShort == {<<29, 50>>, <<29, 100>>, <<57, 100>>, <<58, 100>>}

\* int((completed_count / len(self._tasks)) * 100) for total <= 100: the
\* floating-point product truncated toward zero
int_percent(count, total) ==
    ((count * 100) \div total) - (IF <<count, total>> \in FloatShort THEN 1 ELSE 0)

\* mutant: the percentage is rounded to the nearest integer
Plan_update_progress_round(self, plan_tasks) ==
    IF Len(plan_tasks) = 0 THEN [self EXCEPT !.progress = 0]
    ELSE LET s1 == [self EXCEPT
                      !.progress = (2 * completed_count(plan_tasks) * 100
                                        + Len(plan_tasks)) \div (2 * Len(plan_tasks)),
                      !.updated_at = get_timestamp]
         IN  IF s1.progress = 100 /\ s1.status # COMPLETED
             THEN Plan_update_status(s1, COMPLETED)
             ELSE s1

\* mutant: each call adds the percentage to the stored progress
Plan_update_progress_add(self, plan_tasks) ==
    IF Len(plan_tasks) = 0 THEN [self EXCEPT !.progress = 0]
    ELSE LET pct == self.progress + int_percent(completed_count(plan_tasks),
                                                Len(plan_tasks))
             s1 == [self EXCEPT !.progress = IF pct > 100 THEN 100 ELSE pct,
                                !.updated_at = get_timestamp]
         IN  IF s1.progress = 100 /\ s1.status # COMPLETED
             THEN Plan_update_status(s1, COMPLETED)
             ELSE s1

Plan_update_progress(self, plan_tasks) ==
    IF Len(plan_tasks) = 0 THEN [self EXCEPT !.progress = 0]
    ELSE LET s1 == [self EXCEPT
                      !.progress = int_percent(completed_count(plan_tasks),
                                               Len(plan_tasks)),
                      !.updated_at = get_timestamp]
         IN  IF s1.progress = 100 /\ s1.status # COMPLETED
             THEN Plan_update_status(s1, COMPLETED)
             ELSE s1

\* self._input(prompt, default=default) for the line typed, stripped
input_or_default(value, default) ==
    IF value = "" /\ default # "" THEN default ELSE value

\* the list a wizard question about a list leaves: _confirm("Replace all?")
\* answered yes replaces it by the items entered, else _confirm("Add new?")
\* answered yes extends it by them, else it is kept
edit_list(list, answer) ==
    IF answer[1] = "replace" THEN answer[2]
    ELSE IF answer[1] = "add" THEN list \o answer[2]
    ELSE list

\* InteractiveMode.edit_plan_wizard(plan) for the choice of the menu and the
\* answer typed after it: the line typed for the brief and the author, the
\* (confirmation, items) pair for tags, objectives and deliverables, the
\* option selected for the status.  The value returned and the plan as the
\* wizard leaves it: the status is assigned without any stamp
edit_plan_wizard(self, choice, answer) ==
    IF choice = "1"
    THEN [result |-> TRUE,
          self |-> [self EXCEPT !.brief = input_or_default(answer, @)]]
    ELSE IF choice = "2"
    THEN [result |-> TRUE,
          self |-> [self EXCEPT !.author =
                       input_or_default(answer, IF @ = None THEN "" ELSE @)]]
    ELSE IF choice = "3"
    THEN [result |-> TRUE, self |-> [self EXCEPT !.tags = edit_list(@, answer)]]
    ELSE IF choice = "4"
    THEN [result |-> TRUE, self |-> [self EXCEPT !.objectives = edit_list(@, answer)]]
    ELSE IF choice = "5"
    THEN [result |-> TRUE, self |-> [self EXCEPT !.deliverables = edit_list(@, answer)]]
    ELSE IF choice = "6"
    THEN [result |-> TRUE, self |-> [self EXCEPT !.status = Enum(PlanStatus, answer)]]
    ELSE [result |-> FALSE, self |-> self]

----------------------------------------------------------------------------
(* Plan: storage of its tasks                                               *)

\* the entry of the plan's tasks directory, config.get_tasks_dir(name), in
\* the files of the plan: the directory exists when the entry is there
TasksDir == [name |-> "tasks", dir |-> TRUE]

\* the name of the plan file, config.get_plan_file(name)
PlanFile == "plan.yaml"

\* the task ids of the model that hold a path separator: the task file of
\* such an id lies in a subdirectory of the tasks directory, which no call
\* creates
SlashIds == {"t/1"}

\* a Config instance (an object without __bool__ or __len__: truthy)
Config == "Config"

\* Plan.set_config(config)
Plan_set_config(self, config) == [self EXCEPT !._config = config]

\* Task.to_dict(): the groups of the task record
Task_to_dict(self) ==
    [ metadata |-> [id |-> self.id, order |-> self.order,
                    created_at |-> self.created_at, updated_at |-> self.updated_at],
      summary |-> [title |-> self.title, description |-> self.description,
                   priority |-> str(self.priority),
                   estimated_hours |-> self.estimated_hours],
      status |-> [current |-> str(self.status), started_at |-> self.started_at,
                  completed_at |-> self.completed_at, progress |-> self.progress],
      dependencies |-> [requires |-> self.requires, blocks |-> self.blocks],
      execution |-> [assigned_to |-> self.assigned_to, notes |-> self.notes,
                     artifacts |-> self.artifacts] ]

\* dict.get(key, default)
Get(d, key, default) == IF key \in DOMAIN d THEN d[key] ELSE default

\* {}: the dict without keys
EmptyDict == <<>>

\* a YAML value that is no mapping (null, a string, a number, a sequence),
\* written as the text that stands for it in the file
Scalar(text) == [scalar |-> text]

\* whether a value read from a record is a mapping, a dict with a get method
is_mapping(value) == "scalar" \notin DOMAIN value

\* the exception of value.get(...): a value that is no dict has no attribute
\* get
get_raises(value) == IF is_mapping(value) THEN None ELSE "AttributeError"

\* the exception a sequence of steps raises: that of the first step that
\* raises, None when every step returns
FirstRaised(steps) ==
    IF \A k \in DOMAIN steps : steps[k] = None THEN None
    ELSE steps[CHOOSE k \in DOMAIN steps :
                  steps[k] # None /\ \A j \in 1..(k - 1) : steps[j] = None]

\* the exception Task.from_dict(data) raises, None when it returns a Task:
\* the groups are taken from data, then the arguments of the constructor are
\* computed in the order of the fields, a get on a group that is no mapping
\* and TaskPriority(...) or TaskStatus(...) on a string that is no value of
\* the enumeration
Task_from_dict_raises(data) ==
    LET summary == Get(data, "summary", EmptyDict)
        status_data == Get(data, "status", EmptyDict)
    IN  FirstRaised(<<get_raises(data),
                      get_raises(Get(data, "metadata", EmptyDict)),
                      get_raises(summary),
                      Enum_raises(TaskPriority, Get(summary, "priority", "medium")),
                      get_raises(status_data),
                      Enum_raises(TaskStatus, Get(status_data, "current", "pending")),
                      get_raises(Get(data, "dependencies", EmptyDict)),
                      get_raises(Get(data, "execution", EmptyDict))>>)

\* mutant: a loaded task is stamped as if it had just been created
Task_from_dict_restamp(data) ==
    LET metadata == Get(data, "metadata", EmptyDict)
        summary == Get(data, "summary", EmptyDict)
        status_data == Get(data, "status", EmptyDict)
        dependencies == Get(data, "dependencies", EmptyDict)
        execution == Get(data, "execution", EmptyDict)
    IN  [ id |-> Get(metadata, "id", ""), order |-> Get(metadata, "order", 0),
          created_at |-> get_timestamp, updated_at |-> get_timestamp,
          title |-> Get(summary, "title", ""),
          description |-> Get(summary, "description", ""),
          priority |-> Enum(TaskPriority, Get(summary, "priority", "medium")),
          estimated_hours |-> Get(summary, "estimated_hours", 0),
          status |-> Enum(TaskStatus, Get(status_data, "current", "pending")),
          started_at |-> Get(status_data, "started_at", NoTime),
          completed_at |-> Get(status_data, "completed_at", NoTime),
          progress |-> Get(status_data, "progress", 0),
          requires |-> Get(dependencies, "requires", <<>>),
          blocks |-> Get(dependencies, "blocks", <<>>),
          assigned_to |-> Get(execution, "assigned_to", None),
          notes |-> Get(execution, "notes", ""),
          artifacts |-> Get(execution, "artifacts", <<>>) ]

\* Task.from_dict(data) when it returns: the constructor on the values read
\* with their defaults, then __post_init__, which stamps created_at and
\* updated_at when they are None
Task_from_dict(data) ==
    LET metadata == Get(data, "metadata", EmptyDict)
        summary == Get(data, "summary", EmptyDict)
        status_data == Get(data, "status", EmptyDict)
        dependencies == Get(data, "dependencies", EmptyDict)
        execution == Get(data, "execution", EmptyDict)
        created_at == Get(metadata, "created_at", NoTime)
        updated_at == Get(metadata, "updated_at", NoTime)
    IN  [ id |-> Get(metadata, "id", ""), order |-> Get(metadata, "order", 0),
          created_at |-> IF created_at = NoTime THEN get_timestamp ELSE created_at,
          updated_at |-> IF updated_at = NoTime THEN get_timestamp ELSE updated_at,
          title |-> Get(summary, "title", ""),
          description |-> Get(summary, "description", ""),
          priority |-> Enum(TaskPriority, Get(summary, "priority", "medium")),
          estimated_hours |-> Get(summary, "estimated_hours", 0),
          status |-> Enum(TaskStatus, Get(status_data, "current", "pending")),
          started_at |-> Get(status_data, "started_at", NoTime),
          completed_at |-> Get(status_data, "completed_at", NoTime),
          progress |-> Get(status_data, "progress", 0),
          requires |-> Get(dependencies, "requires", <<>>),
          blocks |-> Get(dependencies, "blocks", <<>>),
          assigned_to |-> Get(execution, "assigned_to", None),
          notes |-> Get(execution, "notes", ""),
          artifacts |-> Get(execution, "artifacts", <<>>) ]

\* Plan._calculate_tasks_summary()
calculate_tasks_summary(plan_tasks) ==
    [ total |-> Len(plan_tasks),
      completed |-> Cardinality({k \in DOMAIN plan_tasks : plan_tasks[k].status = COMPLETED}),
      in_progress |-> Cardinality({k \in DOMAIN plan_tasks : plan_tasks[k].status = EXECUTING}),
      blocked |-> Cardinality({k \in DOMAIN plan_tasks : plan_tasks[k].status = BLOCKED}) ]

\* Plan.to_dict() of the plan `self` holding plan_tasks
Plan_to_dict(self, plan_tasks) ==
    [ metadata |-> [id |-> self.id, name |-> self.name, version |-> self.version,
                    created_at |-> self.created_at, updated_at |-> self.updated_at,
                    author |-> self.author, tags |-> self.tags],
      summary |-> [brief |-> self.brief, objectives |-> self.objectives,
                   deliverables |-> self.deliverables],
      status |-> [current |-> str(self.status), is_approved |-> self.is_approved,
                  approved_by |-> self.approved_by, approved_at |-> self.approved_at],
      execution |-> [started_at |-> self.started_at,
                     completed_at |-> self.completed_at, progress |-> self.progress],
      tasks_summary |-> calculate_tasks_summary(plan_tasks) ]

\* the exception Plan.from_dict(data) raises, None when it returns a Plan: a
\* get on data or on a group that is no mapping, PlanStatus(...) on a string
\* that is no value of the enumeration
Plan_from_dict_raises(data) ==
    LET status_data == Get(data, "status", EmptyDict)
    IN  FirstRaised(<<get_raises(data),
                      get_raises(Get(data, "metadata", EmptyDict)),
                      get_raises(Get(data, "summary", EmptyDict)),
                      get_raises(status_data),
                      Enum_raises(PlanStatus, Get(status_data, "current", "draft")),
                      get_raises(Get(data, "execution", EmptyDict))>>)

\* Plan.from_dict(data) when it returns: a Plan without tasks and without
\* configuration; uuid4() names a plan whose record carries no id
Plan_from_dict(data) ==
    LET metadata == Get(data, "metadata", EmptyDict)
        summary == Get(data, "summary", EmptyDict)
        status_data == Get(data, "status", EmptyDict)
        execution == Get(data, "execution", EmptyDict)
        created_at == Get(metadata, "created_at", NoTime)
        updated_at == Get(metadata, "updated_at", NoTime)
    IN  [ id |-> Get(metadata, "id", "plan-uuid"), name |-> Get(metadata, "name", <<>>),
          version |-> Get(metadata, "version", "1.0.0"),
          created_at |-> IF created_at = NoTime THEN get_timestamp ELSE created_at,
          updated_at |-> IF updated_at = NoTime THEN get_timestamp ELSE updated_at,
          author |-> Get(metadata, "author", None),
          tags |-> Get(metadata, "tags", <<>>),
          brief |-> Get(summary, "brief", ""),
          objectives |-> Get(summary, "objectives", <<>>),
          deliverables |-> Get(summary, "deliverables", <<>>),
          status |-> Enum(PlanStatus, Get(status_data, "current", "draft")),
          is_approved |-> Get(status_data, "is_approved", FALSE),
          approved_by |-> Get(status_data, "approved_by", None),
          approved_at |-> Get(status_data, "approved_at", NoTime),
          started_at |-> Get(execution, "started_at", NoTime),
          completed_at |-> Get(execution, "completed_at", NoTime),
          progress |-> Get(execution, "progress", 0),
          _config |-> None ]

\* Config.get_task_file(plan_name, task_id), within the plan's tasks directory
get_task_file(task_id) == "task-" \o task_id \o ".yaml"

\* the exception of Task.save(file_path), None when it returns: open() of
\* save_yaml fails when the directory of the file does not exist
Task_save_raises(files, file_path) ==
    IF TasksDir \notin files \/ file_path \in {get_task_file(id) : id \in SlashIds}
    THEN "FileNotFoundError" ELSE None

\* Task.save(file_path): save_yaml opens the file with mode 'w', so a file of
\* that name is replaced; nothing is written when open() fails
Task_save(files, self, file_path) ==
    IF Task_save_raises(files, file_path) # None THEN files
    ELSE {f \in files : f.name # file_path}
            \cup {[name |-> file_path, data |-> Task_to_dict(self)]}

\* Plan.save(config): the plan and the files as the call leaves them; the
\* plan directory and the tasks directory are created when missing and the
\* plan file is written; no clock is read
Plan_save(self, plan_tasks, files, config) ==
    LET s1 == [self EXCEPT !._config = config]
    IN  [self |-> s1,
         files |-> {f \in files : f.name # PlanFile}
                      \cup {TasksDir,
                            [name |-> PlanFile, data |-> Plan_to_dict(s1, plan_tasks)]}]

\* mutant: the configuration is checked after the task was appended
Plan_add_task_late(self, plan_tasks, files, task) ==
    IF self._config = None
    THEN [raised |-> "ValueError", self |-> [self EXCEPT !.updated_at = get_timestamp],
          tasks |-> Append(plan_tasks, task), files |-> files]
    ELSE [raised |-> None,
          self |-> [self EXCEPT !.updated_at = get_timestamp],
          tasks |-> Append(plan_tasks, task),
          files |-> Task_save(files, task, get_task_file(task.id))]

\* Plan.add_task(task) on the plan `self` with task list plan_tasks and task
\* files `files`: the exception raised (None when it returns) and the three
\* as the call leaves them; task.save comes after the append and the stamp,
\* so when it raises the task is in memory and has no file
Plan_add_task(self, plan_tasks, files, task) ==
    IF self._config = None
    THEN [raised |-> "ValueError", self |-> self, tasks |-> plan_tasks,
          files |-> files]
    ELSE [raised |-> Task_save_raises(files, get_task_file(task.id)),
          self |-> [self EXCEPT !.updated_at = get_timestamp],
          tasks |-> Append(plan_tasks, task),
          files |-> Task_save(files, task, get_task_file(task.id))]

\* Plan.get_task(task_id): the position of the first task with that id, 0
\* for None
get_task(plan_tasks, task_id) ==
    IF \E k \in DOMAIN plan_tasks : plan_tasks[k].id = task_id
    THEN CHOOSE k \in DOMAIN plan_tasks :
             /\ plan_tasks[k].id = task_id
             /\ \A j \in 1..(k - 1) : plan_tasks[j].id # task_id
    ELSE 0

\* Plan.remove_task(task_id): the value returned and the plan, its task list
\* and the task files as the call leaves them; self._tasks.remove(task)
\* removes the first task equal to the one found, task_file.unlink() the
\* file of that id when there is one
Plan_remove_task(self, plan_tasks, files, task_id) ==
    LET k == get_task(plan_tasks, task_id)
    IN  IF k = 0
        THEN [result |-> FALSE, self |-> self, tasks |-> plan_tasks, files |-> files]
        ELSE [result |-> TRUE,
              self |-> [self EXCEPT !.updated_at = get_timestamp],
              tasks |-> Remove(plan_tasks, plan_tasks[k]),
              files |-> IF self._config # None
                        THEN {f \in files : f.name # get_task_file(task_id)}
                        ELSE files]

----------------------------------------------------------------------------
(* Validator: cycle detection                                               *)

\* Python list helpers
\* list.index(x), 1-based: the first position holding x
IndexOf(seq, x) == CHOOSE k \in DOMAIN seq :
                       seq[k] = x /\ \A j \in 1..(k - 1) : seq[j] # x
\* list.pop(): the list without its last element
Pop(seq) == SubSeq(seq, 1, Len(seq) - 1)

\* graph = {task.id: task.requires for task in tasks}: the keys in order of
\* first insertion, each bound to the requires of the last task of that id
graph_keys(all_tasks) ==
    LET RECURSIVE keys(_, _)
        keys(k, acc) ==
            IF k > Len(all_tasks) THEN acc
            ELSE keys(k + 1, IF InList(acc, all_tasks[k].id) THEN acc
                             ELSE Append(acc, all_tasks[k].id))
    IN  keys(1, <<>>)

\* graph.get(node, [])
graph_get(all_tasks, node) ==
    IF \E k \in DOMAIN all_tasks : all_tasks[k].id = node
    THEN LET last == CHOOSE k \in DOMAIN all_tasks :
                        /\ all_tasks[k].id = node
                        /\ \A j \in (k + 1)..Len(all_tasks) : all_tasks[j].id # node
         IN  all_tasks[last].requires
    ELSE <<>>

RECURSIVE dfs(_, _, _), dfs_neighbors(_, _, _, _)

\* the body of `for neighbor in graph.get(node, [])` from the k-th neighbor
\* on, then the pops; returns [found, st]
dfs_neighbors(all_tasks, node, k, st) ==
    LET nbs == graph_get(all_tasks, node)
    IN  IF k > Len(nbs)
        THEN [found |-> FALSE,
              st |-> [st EXCEPT !.path = Pop(@), !.rec_stack = @ \ {node}]]
        ELSE LET neighbor == nbs[k]
             IN  IF neighbor \notin st.visited
                 THEN LET r == dfs(all_tasks, neighbor, st)
                      IN  IF r.found THEN [found |-> TRUE, st |-> r.st]
                          ELSE dfs_neighbors(all_tasks, node, k + 1, r.st)
                 ELSE IF neighbor \in st.rec_stack
                 THEN LET cycle_start == IndexOf(st.path, neighbor)
                          cycle == SubSeq(st.path, cycle_start, Len(st.path))
                                       \o <<neighbor>>
                      IN  [found |-> TRUE,
                           st |-> [st EXCEPT !.cycles = Append(@, cycle)]]
                 ELSE dfs_neighbors(all_tasks, node, k + 1, st)

\* dfs(node): `depth` counts the frames of dfs that are running, `deepest`
\* is the largest count so far
dfs(all_tasks, node, st) ==
    LET r == dfs_neighbors(all_tasks, node, 1,
                 [st EXCEPT !.visited = @ \cup {node},
                            !.rec_stack = @ \cup {node},
                            !.path = Append(@, node),
                            !.depth = @ + 1,
                            !.deepest = IF st.depth + 1 > @ THEN st.depth + 1 ELSE @])
    IN  [found |-> r.found, st |-> [r.st EXCEPT !.depth = @ - 1]]

\* `for task_id in graph: if task_id not in visited: dfs(task_id)` over the
\* first `roots` keys of the graph; returns the closure variables
dfs_roots(all_tasks, roots) ==
    LET keys == graph_keys(all_tasks)
        RECURSIVE run(_, _)
        run(k, st) ==
            IF k > roots \/ k > Len(keys) THEN st
            ELSE run(k + 1, IF keys[k] \notin st.visited
                            THEN dfs(all_tasks, keys[k], st).st ELSE st)
    \* the closure variables of dfs before the first root
    IN  run(1, [visited |-> {}, rec_stack |-> {}, path |-> <<>>, cycles |-> <<>>,
                depth |-> 0, deepest |-> 0])

\* mutant: only the first task is used as a root
detect_circular_dependencies_first_root(all_tasks) ==
    dfs_roots(all_tasks, 1).cycles

\* mutant: a task that requires an id of no task is reported as a cycle
detect_circular_dependencies_missing(all_tasks) ==
    LET ids == {all_tasks[k].id : k \in DOMAIN all_tasks}
        dangling == SelectSeq(all_tasks,
                        LAMBDA t : \E j \in DOMAIN t.requires : t.requires[j] \notin ids)
    IN  dfs_roots(all_tasks, Len(all_tasks)).cycles
            \o [k \in DOMAIN dangling |-> <<dangling[k].id, dangling[k].id>>]

detect_circular_dependencies(all_tasks) ==
    dfs_roots(all_tasks, Len(all_tasks)).cycles

\* the exception detect_circular_dependencies(tasks) raises when its frame
\* lies at depth `frame` of the call stack, None when it returns: dfs calls
\* itself once for each node of the path it follows, and the interpreter
\* raises RecursionError in the call that would reach the recursion limit
detect_circular_dependencies_raises(all_tasks, frame) ==
    IF frame + dfs_roots(all_tasks, Len(all_tasks)).deepest >= RecursionLimit
    THEN "RecursionError" ELSE None

----------------------------------------------------------------------------
(* Validator: validation results                                            *)

ValidationError(severity, message, context) ==
    [severity |-> severity, message |-> message, context |-> context]

\* mutant: a warning makes the result invalid too
ValidationResult_strict(errors, warnings) ==
    [is_valid |-> Len(errors) = 0 /\ Len(warnings) = 0,
     errors |-> errors, warnings |-> warnings]

ValidationResult(errors, warnings) ==
    [is_valid |-> Len(errors) = 0, errors |-> errors, warnings |-> warnings]

\* ' -> '.join(cycle)
RECURSIVE Join(_)
Join(seq) == IF Len(seq) = 0 THEN ""
             ELSE IF Len(seq) = 1 THEN seq[1]
             ELSE seq[1] \o " -> " \o Join(Tail(seq))

\* mutant: a missing id that occurs twice in the list is reported once
\* the errors appended by `for req_id in task.requires` (kind "requires")
\* or `for blocked_id in task.blocks` (kind "blocks")
missing_id_errors(task, ids, task_ids, kind) ==
    LET RECURSIVE walk(_, _)
        walk(k, acc) ==
            IF k > Len(ids) THEN acc
            ELSE walk(k + 1,
                   IF ids[k] \notin task_ids
                   THEN Append(acc, ValidationError("error",
                          "Task " \o task.id \o " " \o kind
                              \o " non-existent task " \o ids[k],
                          IF kind = "requires"
                          THEN [task_id |-> task.id, missing_dependency |-> ids[k]]
                          ELSE [task_id |-> task.id, missing_blocked |-> ids[k]]))
                   ELSE acc)
    IN  walk(1, <<>>)

\* the errors appended by `for cycle in cycles: if task.id in cycle`
cycle_errors(task, cycles) ==
    LET RECURSIVE walk(_, _)
        walk(k, acc) ==
            IF k > Len(cycles) THEN acc
            ELSE walk(k + 1,
                   IF InList(cycles[k], task.id)
                   THEN Append(acc, ValidationError("error",
                          "Circular dependency detected: " \o Join(cycles[k]),
                          [task_id |-> task.id, cycle |-> cycles[k]]))
                   ELSE acc)
    IN  walk(1, <<>>)

\* the exception validate_task_dependencies(task, all_tasks) raises when its
\* frame lies at depth `frame`, None when it returns a result: that of the
\* detect_circular_dependencies it calls
validate_task_dependencies_raises(task, all_tasks, frame) ==
    detect_circular_dependencies_raises(all_tasks, frame + 1)

\* validate_task_dependencies(task, all_tasks) when it returns
validate_task_dependencies(task, all_tasks) ==
    LET task_ids == {all_tasks[k].id : k \in DOMAIN all_tasks}
        cycles == detect_circular_dependencies(all_tasks)
        errors == missing_id_errors(task, task.requires, task_ids, "requires")
                  \o missing_id_errors(task, task.blocks, task_ids, "blocks")
                  \o cycle_errors(task, cycles)
        warnings ==
            IF Len(task.requires) > 10
            THEN <<ValidationError("warning",
                     "Task " \o task.id \o " has " \o ToString(Len(task.requires))
                         \o " dependencies (consider breaking it down)",
                     [task_id |-> task.id,
                      dependency_count |-> Len(task.requires)])>>
            ELSE <<>>
    IN  ValidationResult(errors, warnings)

\* Plan.get_tasks(): a copy of the plan's task list
get_tasks(plan_tasks) == plan_tasks

\* the characters str.strip() removes, those for which str.isspace() holds,
\* among the characters up to U+00FF, of which the names of the model are
\* made: space, tab, line feed, carriage return, form feed, vertical tab,
\* the separators U+001C to U+001F, next line U+0085, no-break space U+00A0
Whitespace == {" ", "\t", "\n", "\r", "\f", "", "", "", "", "",
               "", " "}

\* `not plan.name or not plan.name.strip()` for a name given as its list of
\* characters
name_is_blank(name) == \A k \in DOMAIN name : name[k] \in Whitespace

\* the string of a name given as its list of characters
RECURSIVE str_of(_)
str_of(name) == IF Len(name) = 0 THEN "" ELSE Head(name) \o str_of(Tail(name))

\* the aggregation of validate_task_dependencies over every task
RECURSIVE task_results(_, _, _)
task_results(all_tasks, k, acc) ==
    IF k > Len(all_tasks) THEN acc
    ELSE LET r == validate_task_dependencies(all_tasks[k], all_tasks)
         IN  task_results(all_tasks, k + 1,
                          [errors |-> acc.errors \o r.errors,
                           warnings |-> acc.warnings \o r.warnings])

\* mutant: a CANCELLED plan is warned about like any other
validate_plan_cancelled(p, plan_tasks) ==
    LET all_tasks == get_tasks(plan_tasks)
        name_errors ==
            IF name_is_blank(p.name)
            THEN <<ValidationError("error", "Plan must have a name",
                                   [plan_id |-> p.id])>>
            ELSE <<>>
        agg == task_results(all_tasks, 1, [errors |-> <<>>, warnings |-> <<>>])
        all_completed == \A k \in DOMAIN all_tasks : all_tasks[k].status = COMPLETED
        any_failed == \E k \in DOMAIN all_tasks : all_tasks[k].status = FAILED
        task_warnings ==
            IF Len(all_tasks) = 0
            THEN <<ValidationError("warning", "Plan " \o str_of(p.name) \o " has no tasks",
                                   [plan_name |-> p.name])>>
            ELSE agg.warnings
                 \o (IF all_completed /\ str(p.status) # "completed"
                     THEN <<ValidationError("warning",
                              "Plan " \o str_of(p.name)
                                  \o ": All tasks completed but plan status is "
                                  \o str(p.status),
                              [plan_name |-> p.name, plan_status |-> str(p.status)])>>
                     ELSE <<>>)
                 \o (IF any_failed /\ str(p.status) # "failed"
                     THEN <<ValidationError("warning",
                              "Plan " \o str_of(p.name)
                                  \o ": Some tasks failed but plan status is "
                                  \o str(p.status),
                              [plan_name |-> p.name, plan_status |-> str(p.status)])>>
                     ELSE <<>>)
        field_warnings ==
            (IF Len(p.objectives) = 0
             THEN <<ValidationError("warning",
                                    "Plan " \o str_of(p.name) \o " has no objectives defined",
                                    [plan_name |-> p.name])>>
             ELSE <<>>)
            \o (IF Len(p.deliverables) = 0
                THEN <<ValidationError("warning",
                                    "Plan " \o str_of(p.name) \o " has no deliverables defined",
                                       [plan_name |-> p.name])>>
                ELSE <<>>)
    IN  ValidationResult(
            name_errors \o (IF Len(all_tasks) = 0 THEN <<>> ELSE agg.errors),
            task_warnings \o field_warnings)

validate_plan(p, plan_tasks) ==
    LET all_tasks == get_tasks(plan_tasks)
        name_errors ==
            IF name_is_blank(p.name)
            THEN <<ValidationError("error", "Plan must have a name",
                                   [plan_id |-> p.id])>>
            ELSE <<>>
        agg == task_results(all_tasks, 1, [errors |-> <<>>, warnings |-> <<>>])
        all_completed == \A k \in DOMAIN all_tasks : all_tasks[k].status = COMPLETED
        any_failed == \E k \in DOMAIN all_tasks : all_tasks[k].status = FAILED
        task_warnings ==
            IF Len(all_tasks) = 0
            THEN <<ValidationError("warning", "Plan " \o str_of(p.name) \o " has no tasks",
                                   [plan_name |-> p.name])>>
            ELSE agg.warnings
                 \o (IF all_completed /\ str(p.status) \notin {"completed", "cancelled"}
                     THEN <<ValidationError("warning",
                              "Plan " \o str_of(p.name)
                                  \o ": All tasks completed but plan status is "
                                  \o str(p.status),
                              [plan_name |-> p.name, plan_status |-> str(p.status)])>>
                     ELSE <<>>)
                 \o (IF any_failed /\ str(p.status) \notin {"failed", "cancelled"}
                     THEN <<ValidationError("warning",
                              "Plan " \o str_of(p.name)
                                  \o ": Some tasks failed but plan status is "
                                  \o str(p.status),
                              [plan_name |-> p.name, plan_status |-> str(p.status)])>>
                     ELSE <<>>)
        field_warnings ==
            (IF Len(p.objectives) = 0
             THEN <<ValidationError("warning",
                                    "Plan " \o str_of(p.name) \o " has no objectives defined",
                                    [plan_name |-> p.name])>>
             ELSE <<>>)
            \o (IF Len(p.deliverables) = 0
                THEN <<ValidationError("warning",
                                    "Plan " \o str_of(p.name) \o " has no deliverables defined",
                                       [plan_name |-> p.name])>>
                ELSE <<>>)
    IN  ValidationResult(
            name_errors \o (IF Len(all_tasks) = 0 THEN <<>> ELSE agg.errors),
            task_warnings \o field_warnings)

----------------------------------------------------------------------------
(* Validator: readiness and suggestions                                     *)

\* mutant: one COMPLETED requirement is enough
check_task_ready_to_execute_any(task, all_tasks) ==
    IF task.status = COMPLETED THEN [ready |-> FALSE, reason |-> "Task already completed"]
    ELSE IF task.status = FAILED THEN [ready |-> FALSE, reason |-> "Task has failed"]
    ELSE IF task.status = BLOCKED THEN [ready |-> FALSE, reason |-> "Task is blocked"]
    ELSE IF \/ Len(task.requires) = 0
            \/ \E k \in DOMAIN task.requires, j \in DOMAIN all_tasks :
                  all_tasks[j].id = task.requires[k] /\ all_tasks[j].status = COMPLETED
         THEN [ready |-> TRUE, reason |-> None]
         ELSE [ready |-> FALSE, reason |-> "Waiting"]

\* mutant: only a PENDING task is ready
check_task_ready_to_execute_pending(task, all_tasks) ==
    IF task.status # PENDING THEN [ready |-> FALSE, reason |-> "Task not pending"]
    ELSE IF \A k \in DOMAIN task.requires :
               \E j \in DOMAIN all_tasks :
                  all_tasks[j].id = task.requires[k] /\ all_tasks[j].status = COMPLETED
         THEN [ready |-> TRUE, reason |-> None]
         ELSE [ready |-> FALSE, reason |-> "Waiting"]

check_task_ready_to_execute(task, all_tasks) ==
    IF task.status = COMPLETED
    THEN [ready |-> FALSE, reason |-> "Task already completed"]
    ELSE IF task.status = FAILED
    THEN [ready |-> FALSE, reason |-> "Task has failed"]
    ELSE IF task.status = BLOCKED
    THEN [ready |-> FALSE, reason |-> "Task is blocked"]
    ELSE
    LET completed_task_ids == {all_tasks[k].id : k \in
                                 {j \in DOMAIN all_tasks : all_tasks[j].status = COMPLETED}}
        unmet == {k \in DOMAIN task.requires : task.requires[k] \notin completed_task_ids}
    IN  IF unmet = {} THEN [ready |-> TRUE, reason |-> None]
        ELSE LET first == CHOOSE k \in unmet : \A j \in unmet : k <= j
                 req_id == task.requires[first]
             IN  IF \E j \in DOMAIN all_tasks : all_tasks[j].id = req_id
                 THEN LET req_task == all_tasks[CHOOSE j \in DOMAIN all_tasks :
                                         /\ all_tasks[j].id = req_id
                                         /\ \A i \in 1..(j - 1) : all_tasks[i].id # req_id]
                      IN  [ready |-> FALSE,
                           reason |-> "Waiting for task " \o req_id
                                          \o " (" \o req_task.title \o ")"]
                 ELSE [ready |-> FALSE,
                       reason |-> "Dependency " \o req_id \o " not found"]

\* `"Waiting for" in reason` for a reason returned by
\* check_task_ready_to_execute(task, all_tasks): of its five reason texts
\* only f"Waiting for task {req_id} ({req_task.title})" holds the words (no
\* id of the model holds them)
has_waiting_for(reason, all_tasks) ==
    \E j \in DOMAIN all_tasks :
        reason = "Waiting for task " \o all_tasks[j].id
                     \o " (" \o all_tasks[j].title \o ")"

\* the list of (task, reason) pairs built by the loop of find_blocked_tasks
RECURSIVE find_blocked_from(_, _, _)
find_blocked_from(all_tasks, k, blocked) ==
    IF k > Len(all_tasks) THEN blocked
    ELSE LET task == all_tasks[k]
             r == check_task_ready_to_execute(task, all_tasks)
         IN  find_blocked_from(all_tasks, k + 1,
                 IF task.status = BLOCKED
                 THEN Append(blocked, <<task, "Manually marked as blocked">>)
                 ELSE IF ~r.ready /\ r.reason # None
                         /\ has_waiting_for(r.reason, all_tasks)
                 THEN Append(blocked, <<task, r.reason>>)
                 ELSE blocked)

find_blocked_tasks(all_tasks) == find_blocked_from(all_tasks, 1, <<>>)

\* priority_order.get(key, 2)
priority_order(priority) ==
    CASE priority = "critical" -> 0
      [] priority = "high" -> 1
      [] priority = "medium" -> 2
      [] priority = "low" -> 3
      [] OTHER -> 2

\* the sort key (priority_order.get(str(t.priority), 2), t.order)
sort_key(t) == <<priority_order(str(t.priority)), t.order>>

\* tuple comparison a < b
key_less(a, b) == a[1] < b[1] \/ (a[1] = b[1] /\ a[2] < b[2])

\* mutant: an element is placed before the elements of equal key
insert_sorted_unstable(acc, t) ==
    LET later == {k \in DOMAIN acc : ~key_less(sort_key(acc[k]), sort_key(t))}
        pos == IF later = {} THEN Len(acc) + 1
               ELSE CHOOSE k \in later : \A j \in later : k <= j
    IN  SubSeq(acc, 1, pos - 1) \o <<t>> \o SubSeq(acc, pos, Len(acc))

\* list.sort is stable: an element goes after every element whose key is not
\* greater than its own
insert_sorted(acc, t) ==
    LET later == {k \in DOMAIN acc : key_less(sort_key(t), sort_key(acc[k]))}
        pos == IF later = {} THEN Len(acc) + 1
               ELSE CHOOSE k \in later : \A j \in later : k <= j
    IN  SubSeq(acc, 1, pos - 1) \o <<t>> \o SubSeq(acc, pos, Len(acc))

\* ready_tasks.sort(key=...)
RECURSIVE list_sort(_, _)
list_sort(seq, acc) ==
    IF Len(seq) = 0 THEN acc
    ELSE list_sort(Tail(seq), insert_sorted(acc, Head(seq)))

\* the filter loop of suggest_next_tasks
RECURSIVE ready_filter(_, _, _)
ready_filter(all_tasks, k, acc) ==
    IF k > Len(all_tasks) THEN acc
    ELSE ready_filter(all_tasks, k + 1,
             IF check_task_ready_to_execute(all_tasks[k], all_tasks).ready
             THEN Append(acc, all_tasks[k]) ELSE acc)

\* mutant: BLOCKED tasks are not filtered out
suggest_next_tasks_blocked(plan_tasks) ==
    LET all_tasks == get_tasks(plan_tasks)
        RECURSIVE keep(_, _)
        keep(k, acc) ==
            IF k > Len(all_tasks) THEN acc
            ELSE keep(k + 1,
                   IF \/ check_task_ready_to_execute(all_tasks[k], all_tasks).ready
                      \/ check_task_ready_to_execute(
                             [all_tasks[k] EXCEPT !.status =
                                 IF @ = BLOCKED THEN PENDING ELSE @], all_tasks).ready
                   THEN Append(acc, all_tasks[k]) ELSE acc)
    IN  list_sort(keep(1, <<>>), <<>>)

suggest_next_tasks(plan_tasks) ==
    LET all_tasks == get_tasks(plan_tasks)
    IN  list_sort(ready_filter(all_tasks, 1, <<>>), <<>>)

----------------------------------------------------------------------------
(* Calls on a Task of the plan *)

NoCall == [op |-> "none"]

\* mutant: a status change of a task refreshes the progress of its plan
TaskUpdateStatus_refresh(i, new_status) ==
    /\ now <= MaxTime
    /\ tasks' = [tasks EXCEPT ![i] = Task_update_status(@, new_status)]
    /\ plan' = Plan_update_progress(plan, tasks')
    /\ now' = now + 1
    /\ ret' = [op |-> "Task.update_status", task |-> i, arg |-> new_status,
               before |-> tasks[i], at |-> now, plan_before |-> plan]
    /\ UNCHANGED disk

TaskUpdateStatus(i, new_status) ==
    /\ now <= MaxTime
    /\ tasks' = [tasks EXCEPT ![i] = Task_update_status(@, new_status)]
    /\ now' = now + 1
    /\ ret' = [op |-> "Task.update_status", task |-> i, arg |-> new_status,
               before |-> tasks[i], at |-> now, plan_before |-> plan]
    /\ UNCHANGED <<plan, disk>>

TaskUpdateProgress(i, progress) ==
    /\ now <= MaxTime
    /\ tasks' = [tasks EXCEPT ![i] = Task_update_progress(@, progress)]
    /\ now' = now + 1
    /\ ret' = [op |-> "Task.update_progress", task |-> i, arg |-> progress,
               before |-> tasks[i], at |-> now, plan_before |-> plan]
    /\ UNCHANGED <<plan, disk>>

\* a call that changes nothing reads no clock
TaskAddDependency(i, task_id) ==
    /\ now <= MaxDepTime
    /\ tasks' = [tasks EXCEPT ![i] = Task_add_dependency(@, task_id)]
    /\ now' = IF tasks' = tasks THEN now ELSE now + 1
    /\ ret' = [op |-> "Task.add_dependency", task |-> i, arg |-> task_id,
               before |-> tasks, at |-> now]
    /\ UNCHANGED <<plan, disk>>

TaskAddBlocker(i, task_id) ==
    /\ now <= MaxDepTime
    /\ tasks' = [tasks EXCEPT ![i] = Task_add_blocker(@, task_id)]
    /\ now' = IF tasks' = tasks THEN now ELSE now + 1
    /\ ret' = [op |-> "Task.add_blocker", task |-> i, arg |-> task_id,
               before |-> tasks, at |-> now]
    /\ UNCHANGED <<plan, disk>>

TaskRemoveDependency(i, task_id) ==
    /\ now <= MaxDepTime
    /\ tasks' = [tasks EXCEPT ![i] = Task_remove_dependency(@, task_id)]
    /\ now' = IF tasks' = tasks THEN now ELSE now + 1
    /\ ret' = [op |-> "Task.remove_dependency", task |-> i, arg |-> task_id,
               before |-> tasks, at |-> now]
    /\ UNCHANGED <<plan, disk>>

TaskAssign(i, assignee) ==
    /\ now <= MaxTime
    /\ tasks' = [tasks EXCEPT ![i] = Task_assign(@, assignee)]
    /\ now' = now + 1
    /\ ret' = [op |-> "Task.assign", task |-> i, arg |-> assignee,
               before |-> tasks, at |-> now]
    /\ UNCHANGED <<plan, disk>>

TaskAddArtifact(i, artifact_path) ==
    /\ now <= MaxTime
    /\ tasks' = [tasks EXCEPT ![i] = Task_add_artifact(@, artifact_path)]
    /\ now' = IF tasks' = tasks THEN now ELSE now + 1
    /\ ret' = [op |-> "Task.add_artifact", task |-> i, arg |-> artifact_path,
               before |-> tasks, at |-> now]
    /\ UNCHANGED <<plan, disk>>

TaskAddNotes(i, note) ==
    /\ now <= MaxTime
    /\ tasks' = [tasks EXCEPT ![i] = Task_add_notes(@, note)]
    /\ now' = now + 1
    /\ ret' = [op |-> "Task.add_notes", task |-> i, arg |-> note,
               before |-> tasks, at |-> now]
    /\ UNCHANGED <<plan, disk>>

----------------------------------------------------------------------------
(* SpecTask: one newly created Task under any sequence of update_status,   *)
(* update_progress, assign, add_artifact and add_notes calls               *)

InitTask ==
    /\ now = 1
    /\ tasks = <<Task("t1", 0, "Title t1", MEDIUM, PENDING, <<>>, <<>>)>>
    /\ plan = Plan(<<"p">>)
    /\ ret = NoCall
    /\ disk = {}

NextTask ==
    \/ \E i \in DOMAIN tasks, s \in TaskStatus : TaskUpdateStatus(i, s)
    \/ \E i \in DOMAIN tasks, v \in ProgressInputs : TaskUpdateProgress(i, v)
    \/ \E i \in DOMAIN tasks : TaskAssign(i, "bob")
    \/ \E i \in DOMAIN tasks : TaskAddArtifact(i, "out.txt")
    \/ \E i \in DOMAIN tasks : TaskAddNotes(i, "a note")

SpecTask == InitTask /\ [][NextTask]_vars

----------------------------------------------------------------------------
(* Inputs of the Validator: task lists with distinct ids                    *)

\* the id and the title of the i-th task of a list
IdOf(i) == "t" \o ToString(i)
TitleOf(i) == "Title " \o IdOf(i)

\* an id that no task of the list carries
Ghost == "tx"

\* requires lists over the ids of n tasks: empty, one id (possibly the
\* task's own or the ghost), or two distinct ids of the list in either order
ReqLists(n) ==
    LET ids == {IdOf(i) : i \in 1..n}
    IN  {<<>>} \cup {<<a>> : a \in ids \cup {Ghost}}
               \cup {<<ab[1], ab[2]>> : ab \in {x \in ids \X ids : x[1] # x[2]}}

\* the lists of n PENDING tasks whose requires are drawn from ReqLists(n)
GraphTasks(n) ==
    {[i \in 1..n |-> Task(IdOf(i), 0, TitleOf(i), MEDIUM, PENDING, reqs[i], <<>>)] :
        reqs \in [1..n -> ReqLists(n)]}

----------------------------------------------------------------------------
(* Calls of the Validator.  The Validator is stateless: a behaviour of a     *)
(* Validator specification makes one call on each input, the input drawn    *)
(* and, for the validations, the input as each edit in the wizard leaves it *)

\* Validator.detect_circular_dependencies(tasks), called from a script: the
\* lists of the model are short of the recursion limit by far
DetectCircular ==
    /\ ret = NoCall
    /\ ret' = [op |-> "detect_circular_dependencies",
               result |-> detect_circular_dependencies(tasks)]
    /\ UNCHANGED <<tasks, plan, now, disk>>

\* Validator.validate_task_dependencies(tasks[i], tasks) called so that its
\* frame lies at depth `frame` of the call stack
ValidateTaskDependencies(i, frame) ==
    /\ ret.op \in {NoCall.op, "edit_plan_wizard"}
    /\ ret' = IF validate_task_dependencies_raises(tasks[i], tasks, frame) # None
              THEN [op |-> "validate_task_dependencies", task |-> i,
                    raised |-> validate_task_dependencies_raises(tasks[i], tasks, frame)]
              ELSE [op |-> "validate_task_dependencies", task |-> i,
                    raised |-> None,
                    result |-> validate_task_dependencies(tasks[i], tasks)]
    /\ UNCHANGED <<tasks, plan, now, disk>>

\* Validator.validate_plan(plan), called from a script
ValidatePlan ==
    /\ ret.op \in {NoCall.op, "edit_plan_wizard"}
    /\ ret' = [op |-> "validate_plan", result |-> validate_plan(plan, tasks)]
    /\ UNCHANGED <<tasks, plan, now, disk>>

CheckTaskReady(i) ==
    /\ ret = NoCall
    /\ ret' = [op |-> "check_task_ready_to_execute", task |-> i,
               result |-> check_task_ready_to_execute(tasks[i], tasks)]
    /\ UNCHANGED <<tasks, plan, now, disk>>

FindBlockedTasks ==
    /\ ret = NoCall
    /\ ret' = [op |-> "find_blocked_tasks", result |-> find_blocked_tasks(tasks)]
    /\ UNCHANGED <<tasks, plan, now, disk>>

SuggestNextTasks ==
    /\ ret = NoCall
    /\ ret' = [op |-> "suggest_next_tasks", result |-> suggest_next_tasks(tasks),
               before |-> <<plan, tasks>>]
    /\ UNCHANGED <<tasks, plan, now, disk>>

----------------------------------------------------------------------------
(* SpecGraph: cycle detection and dependency validation over every          *)
(* requires graph of up to MaxTasks tasks                                   *)

InitGraph ==
    /\ now = 1
    /\ \E n \in 0..MaxTasks : tasks \in GraphTasks(n)
    /\ plan = Plan(<<"p">>)
    /\ ret = NoCall
    /\ disk = {}

NextGraph ==
    \/ DetectCircular
    \/ \E i \in DOMAIN tasks : ValidateTaskDependencies(i, CalledFromScript)
    \/ ValidatePlan

SpecGraph == InitGraph /\ [][NextGraph]_vars

----------------------------------------------------------------------------
(* SpecReady: readiness over every status and requires list of up to        *)
(* MaxReadyTasks tasks                                                      *)

\* a task as update_status(status) leaves a newly created one
InStatus(t, status) == IF status = PENDING THEN t ELSE Task_update_status(t, status)

ReadyTasks(n) ==
    {[i \in 1..n |-> InStatus(Task(IdOf(i), 0, TitleOf(i), MEDIUM, PENDING,
                                   reqs[i], <<>>), st[i])] :
        reqs \in [1..n -> ReqLists(n)], st \in [1..n -> TaskStatus]}

InitReady ==
    /\ now = 1
    /\ \E n \in 1..MaxReadyTasks : tasks \in ReadyTasks(n)
    /\ plan = Plan(<<"p">>)
    /\ ret = NoCall
    /\ disk = {}

NextReady ==
    \/ \E i \in DOMAIN tasks : CheckTaskReady(i)
    \/ FindBlockedTasks

SpecReady == InitReady /\ [][NextReady]_vars

----------------------------------------------------------------------------
(* SpecSuggest: suggestions over plans of up to MaxTasks tasks that differ  *)
(* in readiness, priority and order                                         *)

\* kind is the (status, requires) of a task: ready, waiting for the first
\* task of the plan, or excluded by its own status; key is its (priority,
\* order)
SuggestTasks(n) ==
    {[i \in 1..n |-> InStatus(Task(IdOf(i), key[i][2], TitleOf(i), key[i][1],
                                   PENDING, kind[i][2], <<>>), kind[i][1])] :
        kind \in [1..n -> {<<PENDING, <<>>>>, <<READY, <<IdOf(1)>>>>, <<COMPLETED, <<>>>>,
                           <<FAILED, <<>>>>, <<BLOCKED, <<>>>>}],
        key \in [1..n -> {<<CRITICAL, 0>>, <<CRITICAL, 1>>, <<HIGH, 0>>,
                          <<MEDIUM, 0>>, <<LOW, 0>>}]}

InitSuggest ==
    /\ now = 1
    /\ \E n \in 0..MaxTasks : tasks \in SuggestTasks(n)
    /\ plan = Plan(<<"p">>)
    /\ ret = NoCall
    /\ disk = {}

NextSuggest == SuggestNextTasks

SpecSuggest == InitSuggest /\ [][NextSuggest]_vars

----------------------------------------------------------------------------
(* SpecValidate: validation of plans of up to MaxValidateTasks tasks that   *)
(* differ in name, status, objectives and deliverables, and whose tasks     *)
(* differ in status and in the kind of their requires and blocks lists; the *)
(* edit wizard changes the deliverables between validations, and the        *)
(* dependencies of a task are validated from a script and from a frame      *)
(* three short of the recursion limit                                       *)

\* the wizard reads no clock; it is not asked for more than MaxPlanItems
\* objectives or deliverables
EditPlanWizard(choice, answer) ==
    /\ LET r == edit_plan_wizard(plan, choice, answer)
       IN  /\ Len(r.self.objectives) <= MaxPlanItems
           /\ Len(r.self.deliverables) <= MaxPlanItems
           /\ plan' = r.self
           /\ ret' = [op |-> "edit_plan_wizard", arg |-> choice, result |-> r.result]
    /\ UNCHANGED <<tasks, now, disk>>

\* (requires, blocks) of a task: none, the first task, the second task (a
\* cycle when the first requires it back), the ghost twice, a ghost and a
\* present id blocked, eleven entries (one more than the warning threshold
\* `len(task.requires) > 10`)
ValidateKinds ==
    {<< <<>>, <<>> >>, << <<IdOf(1)>>, <<>> >>, << <<IdOf(2)>>, <<IdOf(1)>> >>,
     << <<Ghost, Ghost>>, <<>> >>, << <<>>, <<Ghost, IdOf(1)>> >>,
     << [k \in 1..11 |-> IdOf(1)], <<>> >>}

\* the first two tasks take every kind, the tasks after them have empty lists
ValidateTasks(n) ==
    {[i \in 1..n |-> InStatus(Task(IdOf(i), 0, TitleOf(i), MEDIUM, PENDING,
                                   kind[i][1], kind[i][2]), st[i])] :
        kind \in {k \in [1..n -> ValidateKinds] :
                    \A i \in 3..n : k[i] = << <<>>, <<>> >>},
        st \in [1..n -> {PENDING, COMPLETED, FAILED}]}

\* plan names as lists of characters: a name, the empty name, two blank
\* names
ValidateNames == {<<"p">>, <<>>, <<" ">>, <<"\r", "">>}

\* a plan as the constructor and update_status(status) leave it, with
\* objectives and deliverables both empty or both given
ValidatePlans ==
    {[(IF st = DRAFT THEN Plan(name) ELSE Plan_update_status(Plan(name), st))
         EXCEPT !.objectives = docs[1], !.deliverables = docs[2]] :
        name \in ValidateNames, st \in {DRAFT, COMPLETED, FAILED, CANCELLED},
        docs \in {<< <<>>, <<>> >>, << <<"o">>, <<"d">> >>}}

InitValidate ==
    /\ now = 1
    /\ \E n \in 0..MaxValidateTasks : tasks \in ValidateTasks(n)
    /\ plan \in ValidatePlans
    /\ ret = NoCall
    /\ disk = {}

NextValidate ==
    \/ ValidatePlan
    \/ \E edit \in {<<"replace", <<>> >>, <<"add", <<"o">> >>, <<"keep", <<>> >>} :
          EditPlanWizard("5", edit)
    \/ \E i \in DOMAIN tasks, frame \in {CalledFromScript, RecursionLimit - 3} :
          ValidateTaskDependencies(i, frame)

SpecValidate == InitValidate /\ [][NextValidate]_vars

----------------------------------------------------------------------------
(* Calls on the Plan                                                        *)

PlanUpdateStatus(new_status) ==
    /\ now <= MaxPlanTime
    /\ plan' = Plan_update_status(plan, new_status)
    /\ now' = now + 1
    /\ ret' = [op |-> "Plan.update_status", arg |-> new_status,
               before |-> plan, at |-> now]
    /\ UNCHANGED <<tasks, disk>>

PlanApprove(approved_by) ==
    /\ now <= MaxPlanTime
    /\ plan' = Plan_approve(plan, approved_by)
    /\ now' = now + 1
    /\ ret' = [op |-> "Plan.approve", arg |-> approved_by,
               before |-> plan, at |-> now, tasks_before |-> tasks]
    /\ UNCHANGED <<tasks, disk>>

PlanUpdateProgress ==
    /\ now <= MaxPlanTime
    /\ plan' = Plan_update_progress(plan, tasks)
    /\ now' = now + 1
    /\ ret' = [op |-> "Plan.update_progress", before |-> plan, at |-> now,
               prev |-> ret.op]
    /\ UNCHANGED <<tasks, disk>>

----------------------------------------------------------------------------
(* SpecPlan: a newly created Plan holding up to MaxPlanTasks tasks, each    *)
(* PENDING, COMPLETED or FAILED, under any sequence of Plan calls and of    *)
(* status edits in the wizard                                               *)

PlanTasks(n) ==
    {[i \in 1..n |-> InStatus(Task(IdOf(i), 0, TitleOf(i), MEDIUM, PENDING,
                                   <<>>, <<>>), st[i])] :
        st \in [1..n -> {PENDING, COMPLETED, FAILED}]}

InitPlan ==
    /\ now = 1
    /\ \E n \in 0..MaxPlanTasks : tasks \in PlanTasks(n)
    /\ plan = Plan(<<"p">>)
    /\ ret = NoCall
    /\ disk = {}

NextPlan ==
    \/ \E s \in PlanStatus : PlanUpdateStatus(s)
    \/ PlanApprove("alice")
    \/ PlanUpdateProgress
    \/ \E choice \in {"0", "6"}, option \in {"executing", "completed"} :
          EditPlanWizard(choice, option)

SpecPlan == InitPlan /\ [][NextPlan]_vars

----------------------------------------------------------------------------
(* SpecOwned: a newly created Plan holding up to MaxOwnedTasks newly        *)
(* created tasks, under any sequence of Task calls on its tasks and Plan    *)
(* calls on itself, up to the instant MaxPlanTime                           *)

OwnedTasks(n) ==
    [i \in 1..n |-> Task(IdOf(i), 0, TitleOf(i), MEDIUM, PENDING, <<>>, <<>>)]

\* the progress values passed to Task.update_progress in SpecOwned
OwnedProgressInputs == {50, 100}

InitOwned ==
    /\ now = 1
    /\ \E n \in 1..MaxOwnedTasks : tasks = OwnedTasks(n)
    /\ plan = Plan(<<"p">>)
    /\ ret = NoCall
    /\ disk = {}

NextOwned ==
    \/ \E i \in DOMAIN tasks, s \in TaskStatus :
          now <= MaxPlanTime /\ TaskUpdateStatus(i, s)
    \/ \E i \in DOMAIN tasks, v \in OwnedProgressInputs :
          now <= MaxPlanTime /\ TaskUpdateProgress(i, v)
    \/ \E s \in PlanStatus : PlanUpdateStatus(s)
    \/ PlanApprove("alice")
    \/ PlanUpdateProgress

SpecOwned == InitOwned /\ [][NextOwned]_vars

----------------------------------------------------------------------------
(* SpecDeps: up to MaxDepTasks newly created tasks under any sequence of    *)
(* add_dependency, add_blocker and remove_dependency calls with the id of a *)
(* task of the list (the receiver's own included) or of no task             *)

DepIds == {IdOf(i) : i \in 1..MaxDepTasks} \cup {Ghost}

InitDeps ==
    /\ now = 1
    /\ \E n \in 1..MaxDepTasks : tasks = OwnedTasks(n)
    /\ plan = Plan(<<"p">>)
    /\ ret = NoCall
    /\ disk = {}

NextDeps ==
    \/ \E i \in DOMAIN tasks, id \in DepIds : TaskAddDependency(i, id)
    \/ \E i \in DOMAIN tasks, id \in DepIds : TaskAddBlocker(i, id)
    \/ \E i \in DOMAIN tasks, id \in DepIds : TaskRemoveDependency(i, id)

SpecDeps == InitDeps /\ [][NextDeps]_vars

----------------------------------------------------------------------------
(* Plan: loading its tasks from the tasks directory                         *)

\* A file holds under `data` the value its YAML text stands for: the dict
\* that save_yaml wrote, a dict that was edited, or a Scalar.  A file whose
\* text is no YAML holds that text under `text`.

\* the exception load_yaml(file_path) raises on a file, None when it returns
load_yaml_raises(file) == IF "data" \in DOMAIN file THEN None ELSE "YAMLError"

\* load_yaml(file_path) when it returns: yaml.safe_load of the file
load_yaml(file) == file.data

\* the exception Task.load(file_path) raises, None when it returns a Task
Task_load_raises(file) ==
    IF load_yaml_raises(file) # None THEN load_yaml_raises(file)
    ELSE Task_from_dict_raises(load_yaml(file))

\* Task.load(file_path) when it returns
Task_load(file) == Task_from_dict(load_yaml(file))

\* the names task-t1.yaml, task-t2.yaml, ... in sorted order
TaskFileNames == [i \in 1..MaxLoadTasks |-> get_task_file(IdOf(i))]

\* sorted(tasks_dir.glob('task-*.yaml')): the files whose name fits the
\* pattern, in the order of their names
sorted_glob(files) ==
    LET RECURSIVE walk(_, _)
        walk(i, acc) ==
            IF i > Len(TaskFileNames) THEN acc
            ELSE walk(i + 1,
                      IF \E f \in files : f.name = TaskFileNames[i]
                      THEN Append(acc, CHOOSE f \in files : f.name = TaskFileNames[i])
                      ELSE acc)
    IN  walk(1, <<>>)

\* the exceptions of Task.load that are instances of Exception
Exception == {"YAMLError", "AttributeError", "ValueError"}

\* mutant: the first file that fails to load ends the loop
RECURSIVE load_from_abort(_, _, _)
load_from_abort(task_files, k, loaded) ==
    IF k > Len(task_files) THEN [raised |-> None, tasks |-> loaded]
    ELSE IF Task_load_raises(task_files[k]) = None
    THEN load_from_abort(task_files, k + 1, Append(loaded, Task_load(task_files[k])))
    ELSE [raised |-> None, tasks |-> loaded]

\* the loop of load_tasks over task_files[k..], with the tasks appended so
\* far: an exception of Task.load that `except Exception` catches is logged
\* and the loop goes on, any other one leaves the call
RECURSIVE load_from(_, _, _)
load_from(task_files, k, loaded) ==
    IF k > Len(task_files) THEN [raised |-> None, tasks |-> loaded]
    ELSE IF Task_load_raises(task_files[k]) = None
    THEN load_from(task_files, k + 1, Append(loaded, Task_load(task_files[k])))
    ELSE IF Task_load_raises(task_files[k]) \in Exception
    THEN load_from(task_files, k + 1, loaded)
    ELSE [raised |-> Task_load_raises(task_files[k]), tasks |-> loaded]

\* Plan.load_tasks(config): the exception raised, and the plan and its task
\* list as the call leaves them; a tasks directory that does not exist
\* gives the empty list
Plan_load_tasks(self, plan_tasks, files, config) ==
    LET r == IF TasksDir \notin files THEN [raised |-> None, tasks |-> <<>>]
             ELSE load_from(sorted_glob(files), 1, <<>>)
    IN  [raised |-> r.raised, self |-> [self EXCEPT !._config = config],
         tasks |-> r.tasks]

\* the exception Plan.load(plan_name, config) raises, None when it returns:
\* the plan file does not exist, its text is no YAML, or from_dict raises
\* on its value
Plan_load_raises(files) ==
    IF \A f \in files : f.name # PlanFile THEN "FileNotFoundError"
    ELSE LET file == CHOOSE f \in files : f.name = PlanFile
         IN  IF load_yaml_raises(file) # None THEN load_yaml_raises(file)
             ELSE Plan_from_dict_raises(load_yaml(file))

\* Plan.load(plan_name, config) when it returns: the plan read from the plan
\* file, with the configuration and the tasks loaded
Plan_load(files, config) ==
    LET file == CHOOSE f \in files : f.name = PlanFile
    IN  Plan_load_tasks(Plan_set_config(Plan_from_dict(load_yaml(file)), config),
                        <<>>, files, config)

----------------------------------------------------------------------------
(* SpecStore: a process that holds a newly created Plan without tasks and   *)
(* without configuration and calls set_config, save, load, add_task and     *)
(* remove_task with tasks of up to MaxStoreTasks ids and one id holding a   *)
(* path separator, Task.save on the tasks of the plan and the edit wizard,  *)
(* while the commands of the command line are run on the files of the plan  *)
(* in an initialised workspace.  `pm plan edit` is the sequence PlanLoad,   *)
(* EditPlanWizard, PlanSave of such a process: the wizard waits for input   *)
(* between the load and the save.  A command that stamps an instant is run  *)
(* up to the instant MaxStoreTime                                           *)

PlanSetConfig ==
    /\ plan' = Plan_set_config(plan, Config)
    /\ ret' = [op |-> "Plan.set_config", before |-> plan]
    /\ UNCHANGED <<tasks, now, disk>>

\* a call that raises reads no clock; a call that returns has stamped
\* updated_at
PlanAddTask(task) ==
    /\ now <= MaxStoreTime
    /\ LET r == Plan_add_task(plan, tasks, disk, task)
       IN  /\ plan' = r.self
           /\ tasks' = r.tasks
           /\ disk' = r.files
           /\ now' = IF r.tasks = tasks THEN now ELSE now + 1
           /\ ret' = [op |-> "Plan.add_task", task |-> task, raised |-> r.raised,
                      before |-> plan, tasks_before |-> tasks,
                      disk_before |-> disk, at |-> now]

PlanRemoveTask(task_id) ==
    /\ now <= MaxStoreTime
    /\ LET r == Plan_remove_task(plan, tasks, disk, task_id)
       IN  /\ plan' = r.self
           /\ tasks' = r.tasks
           /\ disk' = r.files
           /\ now' = IF r.result THEN now + 1 ELSE now
           /\ ret' = [op |-> "Plan.remove_task", arg |-> task_id,
                      result |-> r.result, before |-> plan,
                      tasks_before |-> tasks, disk_before |-> disk, at |-> now]

PlanSave ==
    /\ LET r == Plan_save(plan, tasks, disk, Config)
       IN  /\ plan' = r.self
           /\ disk' = r.files
    /\ ret' = [op |-> "Plan.save"]
    /\ UNCHANGED <<tasks, now>>

\* Task.save on a task of the plan, to the task file of its id, as
\* task_start and task_complete call it
TaskSave(task) ==
    /\ disk' = Task_save(disk, task, get_task_file(task.id))
    /\ ret' = [op |-> "Task.save", task |-> task,
               raised |-> Task_save_raises(disk, get_task_file(task.id))]
    /\ UNCHANGED <<tasks, plan, now>>

\* p = Plan.load(name, config): the plan and the tasks of the files take the
\* place of those held, unless the call raises
PlanLoad ==
    /\ IF Plan_load_raises(disk) # None
       THEN /\ ret' = [op |-> "Plan.load", raised |-> Plan_load_raises(disk)]
            /\ UNCHANGED <<tasks, plan>>
       ELSE LET r == Plan_load(disk, Config)
            IN  /\ plan' = r.self
                /\ tasks' = r.tasks
                /\ ret' = [op |-> "Plan.load", raised |-> r.raised]
    /\ UNCHANGED <<now, disk>>

\* The commands below run in a process of their own: they read and write
\* the files, and the plan and the tasks held by the process above are left
\* alone.  A command that fails prints the error and exits with 1.  The
\* commands that create are run with --no-interactive; the list, show,
\* status and validate commands write no file.

\* `pm plan create --no-interactive --name p [--brief ...]`: a new DRAFT
\* plan is saved over the plan file, whether or not one exists
plan_create(brief) ==
    /\ now <= MaxStoreTime
    /\ LET new_plan == [Plan(<<"p">>) EXCEPT !.brief = IF brief = None THEN "" ELSE brief]
       IN  disk' = Plan_save(new_plan, <<>>, disk, Config).files
    /\ now' = now + 1
    /\ ret' = [op |-> "plan_create", exit |-> 0]
    /\ UNCHANGED <<tasks, plan>>

\* `pm plan approve p --by ...`
plan_approve(approved_by) ==
    /\ now <= MaxStoreTime
    /\ IF Plan_load_raises(disk) # None
       THEN /\ ret' = [op |-> "plan_approve", exit |-> 1]
            /\ UNCHANGED <<now, disk>>
       ELSE LET p == Plan_load(disk, Config)
            IN  /\ disk' = Plan_save(Plan_approve(p.self, approved_by), p.tasks,
                                     disk, Config).files
                /\ now' = now + 1
                /\ ret' = [op |-> "plan_approve", exit |-> 0]
    /\ UNCHANGED <<tasks, plan>>

\* `pm plan delete p --yes`: shutil.rmtree of the plan directory, which
\* exists when one of its files does
plan_delete ==
    /\ disk' = {}
    /\ ret' = [op |-> "plan_delete", found |-> disk # {}]
    /\ UNCHANGED <<tasks, plan, now>>

\* `pm task create p --no-interactive --title ... [--priority ...]`: the
\* task gets an id from uuid4(), is added to the loaded plan, which saves
\* it, and the plan is saved
task_create(id, title, priority) ==
    /\ now <= MaxStoreTime
    /\ IF Plan_load_raises(disk) # None
       THEN /\ ret' = [op |-> "task_create", exit |-> 1]
            /\ UNCHANGED <<now, disk>>
       ELSE LET p == Plan_load(disk, Config)
                new_task == Task(id, 0, title,
                                 IF priority = None THEN MEDIUM
                                 ELSE Enum(TaskPriority, priority),
                                 PENDING, <<>>, <<>>)
                r == Plan_add_task(p.self, p.tasks, disk, new_task)
            IN  /\ \A k \in DOMAIN p.tasks : p.tasks[k].id # id
                /\ disk' = IF r.raised # None THEN r.files
                           ELSE Plan_save(r.self, r.tasks, r.files, Config).files
                /\ now' = now + 1
                /\ ret' = [op |-> "task_create", exit |-> IF r.raised # None THEN 1 ELSE 0]
    /\ UNCHANGED <<tasks, plan>>

\* `pm task start p task_id`: a task that check_task_ready_to_execute
\* reports ready is made EXECUTING and saved; the plan file is not written
task_start(task_id) ==
    /\ IF Plan_load_raises(disk) # None
       THEN /\ ret' = [op |-> "task_start", exit |-> 1]
            /\ UNCHANGED <<now, disk>>
       ELSE LET p == Plan_load(disk, Config)
                k == get_task(p.tasks, task_id)
            IN  IF k = 0
                THEN /\ ret' = [op |-> "task_start", exit |-> 1]
                     /\ UNCHANGED <<now, disk>>
                ELSE IF ~check_task_ready_to_execute(p.tasks[k], p.tasks).ready
                THEN /\ ret' = [op |-> "task_start", exit |-> 1]
                     /\ UNCHANGED <<now, disk>>
                ELSE LET t == Task_update_status(p.tasks[k], EXECUTING)
                         file_path == get_task_file(task_id)
                     IN  /\ disk' = Task_save(disk, t, file_path)
                         /\ now' = now + 1
                         /\ ret' = [op |-> "task_start",
                                    exit |-> IF Task_save_raises(disk, file_path) # None
                                             THEN 1 ELSE 0]
    /\ UNCHANGED <<tasks, plan>>

\* `pm task complete p task_id`: the task is made COMPLETED, whatever its
\* status and its requires, and saved; then the progress of the plan is
\* computed anew and the plan is saved
task_complete(task_id) ==
    /\ IF Plan_load_raises(disk) # None
       THEN /\ ret' = [op |-> "task_complete", exit |-> 1]
            /\ UNCHANGED <<now, disk>>
       ELSE LET p == Plan_load(disk, Config)
                k == get_task(p.tasks, task_id)
            IN  IF k = 0
                THEN /\ ret' = [op |-> "task_complete", exit |-> 1]
                     /\ UNCHANGED <<now, disk>>
                ELSE LET t == Task_update_status(p.tasks[k], COMPLETED)
                         file_path == get_task_file(task_id)
                         saved == Task_save(disk, t, file_path)
                         plan_tasks == [p.tasks EXCEPT ![k] = t]
                     IN  IF Task_save_raises(disk, file_path) # None
                         THEN /\ disk' = saved
                              /\ now' = now + 1
                              /\ ret' = [op |-> "task_complete", exit |-> 1]
                         ELSE /\ disk' = Plan_save(Plan_update_progress(p.self, plan_tasks),
                                                   plan_tasks, saved, Config).files
                              /\ now' = now + 1
                              /\ ret' = [op |-> "task_complete", exit |-> 0,
                                         task |-> task_id]
    /\ UNCHANGED <<tasks, plan>>

\* the tasks handed to add_task: created at the instant of the call,
\* PENDING, the first also COMPLETED, and one whose id holds a path separator
StoreTasks ==
    {Task(IdOf(i), 0, TitleOf(i), MEDIUM, PENDING, <<>>, <<>>) : i \in 1..MaxStoreTasks}
    \cup {InStatus(Task(IdOf(1), 0, TitleOf(1), MEDIUM, PENDING, <<>>, <<>>), COMPLETED)}
    \cup {Task(id, 0, "Title", MEDIUM, PENDING, <<>>, <<>>) : id \in SlashIds}

InitStore ==
    /\ now = 1
    /\ tasks = <<>>
    /\ plan = Plan(<<"p">>)
    /\ ret = NoCall
    /\ disk = {}

\* the ids handed to remove_task
StoreIds == {IdOf(i) : i \in 1..MaxStoreTasks} \cup {Ghost} \cup SlashIds

NextStore ==
    \/ PlanSetConfig
    \/ PlanSave
    \/ PlanLoad
    \/ \E choice \in {"0", "1"} : EditPlanWizard(choice, "a brief")
    \/ \E task \in StoreTasks : PlanAddTask(task)
    \/ \E id \in StoreIds : PlanRemoveTask(id)
    \/ \E i \in DOMAIN tasks : TaskSave(tasks[i])
    \/ plan_create(None)
    \/ plan_approve("alice")
    \/ plan_delete
    \/ \E i \in 1..MaxStoreTasks :
          task_create(IdOf(i), TitleOf(i), IF i = 1 THEN "high" ELSE None)
    \/ \E id \in StoreIds : now <= MaxStoreTime /\ task_start(id)
    \/ \E id \in StoreIds : now <= MaxStoreTime /\ task_complete(id)

SpecStore == InitStore /\ [][NextStore]_vars

----------------------------------------------------------------------------
(* SpecLoad: load_tasks on a tasks directory holding any choice of saved,   *)
(* damaged and foreign files under up to MaxLoadTasks task file names, into *)
(* a plan that holds no task or one task that has no file                   *)

PlanLoadTasks ==
    /\ LET r == Plan_load_tasks(plan, tasks, disk, Config)
       IN  /\ plan' = r.self
           /\ tasks' = r.tasks
           /\ ret' = [op |-> "Plan.load_tasks", raised |-> r.raised,
                      before |-> plan, tasks_before |-> tasks]
    /\ UNCHANGED <<now, disk>>

\* what a file of the i-th name may hold: a saved PENDING or COMPLETED task,
\* a saved task whose status was edited into a word that is no status, a
\* saved task whose summary was edited into a number, text that is no YAML,
\* nothing (which YAML reads as null), a line of plain text
LoadFiles(i) ==
    LET saved(st) == Task_to_dict(InStatus(Task(IdOf(i), 0, TitleOf(i), MEDIUM,
                                                PENDING, <<>>, <<>>), st))
    IN  {[name |-> get_task_file(IdOf(i)), data |-> saved(PENDING)],
         [name |-> get_task_file(IdOf(i)), data |-> saved(COMPLETED)],
         [name |-> get_task_file(IdOf(i)),
          data |-> [saved(PENDING) EXCEPT !.status.current = "done"]],
         [name |-> get_task_file(IdOf(i)),
          data |-> [saved(PENDING) EXCEPT !.summary = Scalar("5")]],
         [name |-> get_task_file(IdOf(i)), text |-> "{"],
         [name |-> get_task_file(IdOf(i)), data |-> Scalar("")],
         [name |-> get_task_file(IdOf(i)), data |-> Scalar("notes")]}

\* what the plan file may hold: a saved plan, a saved plan whose status was
\* edited into a word that is no status, text that is no YAML, a sequence
LoadPlanFiles ==
    LET saved == Plan_to_dict(Plan(<<"p">>), <<>>)
    IN  {[name |-> PlanFile, data |-> saved],
         [name |-> PlanFile, data |-> [saved EXCEPT !.status.current = "archived"]],
         [name |-> PlanFile, text |-> "{"],
         [name |-> PlanFile, data |-> Scalar("[]")]}

\* the choices of at most one file under each of the first n names
RECURSIVE LoadDirs(_)
LoadDirs(n) ==
    IF n = 0 THEN {{}}
    ELSE {d \cup e : d \in LoadDirs(n - 1),
                     e \in {{}} \cup {{f} : f \in LoadFiles(n)}}

\* the directories: none, or one with at most one file under each name,
\* notes.txt being a file of the tasks directory that is not a task file
LoadDisks ==
    {{}} \cup
    {d \cup e \cup n \cup {TasksDir} :
        d \in LoadDirs(MaxLoadTasks),
        e \in {{}} \cup {{f} : f \in LoadPlanFiles},
        n \in {{}, {[name |-> "notes.txt", text |-> "notes"]}}}

InitLoad ==
    /\ now = 1
    /\ tasks \in {<<>>, <<Task(Ghost, 0, "Title tx", MEDIUM, PENDING, <<>>, <<>>)>>}
    /\ plan = Plan(<<"p">>)
    /\ ret = NoCall
    /\ disk \in LoadDisks

NextLoad ==
    \/ PlanLoadTasks
    \/ PlanLoad

SpecLoad == InitLoad /\ [][NextLoad]_vars

----------------------------------------------------------------------------
(* SpecDiscipline: the tasks of a plan, none COMPLETED at first, whose      *)
(* requires lists form a chain into a cycle, a ring, a chain into an id of  *)
(* no task or a chain, under any sequence of update_status and              *)
(* update_progress calls up to the instant MaxDisciplineTime.  No call      *)
(* tests whether the task is ready: task_start makes the test before it     *)
(* calls update_status(EXECUTING), task_complete calls                      *)
(* update_status(COMPLETED) without it                                      *)

\* the requires lists of n tasks: each task requires the next one and the
\* last one requires itself, the first one (a ring), the id of no task, or
\* nothing; or the first requires nothing, the second requires the first
\* and itself, and each later one requires the one before it
DisciplineReqs(n) ==
    {[i \in 1..n |-> IF i < n THEN <<IdOf(i + 1)>> ELSE last] :
        last \in {<<IdOf(n)>>, <<IdOf(1)>>, <<Ghost>>, <<>>}}
    \cup {[i \in 1..n |-> IF i = 1 THEN <<>>
                          ELSE IF i = 2 THEN <<IdOf(1), IdOf(2)>>
                          ELSE <<IdOf(i - 1)>>]}

\* the tasks are all PENDING or all READY
DisciplineTasks(n) ==
    {[i \in 1..n |-> InStatus(Task(IdOf(i), 0, TitleOf(i), MEDIUM, PENDING,
                                   reqs[i], <<>>), st)] :
        reqs \in DisciplineReqs(n), st \in {PENDING, READY}}

InitDiscipline ==
    /\ now = 1
    /\ \E n \in 1..MaxDisciplineTasks : tasks \in DisciplineTasks(n)
    /\ plan = Plan(<<"p">>)
    /\ ret = NoCall
    /\ disk = {}

\* the statuses asked of update_status: EXECUTING and COMPLETED, one that
\* reopens a task and the two that exclude it from readiness
NextDiscipline ==
    \/ \E i \in DOMAIN tasks, s \in {PENDING, EXECUTING, COMPLETED, FAILED, BLOCKED} :
          now <= MaxDisciplineTime /\ TaskUpdateStatus(i, s)
    \/ \E i \in DOMAIN tasks : now <= MaxDisciplineTime /\ TaskUpdateProgress(i, 100)

SpecDiscipline == InitDiscipline /\ [][NextDiscipline]_vars

----------------------------------------------------------------------------
(* SpecSerial: a newly created Plan holding up to MaxSerialTasks tasks,     *)
(* under Task and Plan calls up to the instant MaxSerialTime and edits of   *)
(* the objectives in the wizard, each object serialised and read back at    *)
(* any moment                                                               *)

\* t.to_dict() and Task.from_dict of it
TaskRoundTrip(i) ==
    /\ ret' = [op |-> "Task.from_dict", task |-> i, data |-> Task_to_dict(tasks[i]),
               raised |-> Task_from_dict_raises(Task_to_dict(tasks[i])),
               result |-> Task_from_dict(Task_to_dict(tasks[i]))]
    /\ UNCHANGED <<tasks, plan, now, disk>>

\* p.to_dict(), Plan.from_dict of it, and to_dict() of that plan, which
\* holds no tasks
PlanRoundTrip ==
    /\ ret' = [op |-> "Plan.from_dict", data |-> Plan_to_dict(plan, tasks),
               raised |-> Plan_from_dict_raises(Plan_to_dict(plan, tasks)),
               result |-> Plan_from_dict(Plan_to_dict(plan, tasks)),
               again |-> Plan_to_dict(Plan_from_dict(Plan_to_dict(plan, tasks)), <<>>)]
    /\ UNCHANGED <<tasks, plan, now, disk>>

\* a kind is the (priority, requires, blocks) of the first task and whether
\* the objects were built with every optional field given
SerialKinds ==
    {<<MEDIUM, <<>>, <<>>, FALSE>>, <<CRITICAL, <<Ghost>>, <<>>, FALSE>>,
     <<HIGH, <<>>, <<IdOf(1), Ghost>>, TRUE>>,
     <<LOW, <<IdOf(2)>>, <<IdOf(2)>>, TRUE>>}

\* n tasks; the first one is of the kind: with every optional field, it was
\* built with a description and an estimate of hours, then assigned, given
\* an artifact and two notes
SerialTasks(n, kind) ==
    [i \in 1..n |->
        IF i = 1
        THEN LET t == Task(IdOf(1), 1, TitleOf(1), kind[1], PENDING, kind[2], kind[3])
             IN  IF kind[4]
                 THEN Task_add_notes(Task_add_notes(Task_add_artifact(
                          Task_assign([t EXCEPT !.description = "# what\n- item",
                                                !.estimated_hours = 3],
                                      "bob"), "out.txt"), "a"), "b")
                 ELSE t
        ELSE Task(IdOf(i), 0, TitleOf(i), MEDIUM, PENDING, <<>>, <<>>)]

\* Plan(name="p") and Plan(name="p", version=..., author=..., tags=...,
\* brief=...)
SerialPlan(kind) ==
    IF kind[4]
    THEN [Plan(<<"p">>) EXCEPT !.version = "2.1.0", !.author = "alice",
                               !.tags = <<"infra", "q3">>, !.brief = "a brief"]
    ELSE Plan(<<"p">>)

InitSerial ==
    /\ now = 1
    /\ \E n \in 1..MaxSerialTasks, kind \in SerialKinds :
          /\ tasks = SerialTasks(n, kind)
          /\ plan = SerialPlan(kind)
    /\ ret = NoCall
    /\ disk = {}

NextSerial ==
    \/ \E i \in DOMAIN tasks, s \in TaskStatus :
          now <= MaxSerialTime /\ TaskUpdateStatus(i, s)
    \/ \E s \in PlanStatus : now <= MaxSerialTime /\ PlanUpdateStatus(s)
    \/ now <= MaxSerialTime /\ PlanApprove("alice")
    \/ \E edit \in {<<"replace", <<>> >>, <<"add", <<"o">> >>, <<"keep", <<>> >>} :
          EditPlanWizard("4", edit)
    \/ \E i \in DOMAIN tasks : TaskRoundTrip(i)
    \/ PlanRoundTrip

SpecSerial == InitSerial /\ [][NextSerial]_vars

----------------------------------------------------------------------------
(* Claims about Task.update_status and Task.update_progress (SpecTask)      *)

\* the task the last call acted on, as the call left it
After == tasks[ret.task]

\* C6: update_progress(v) with v >= 100, from any prior status and progress,
\* leaves status COMPLETED and progress 100, and stamps completed_at when the
\* prior status was not COMPLETED.
C6_ProgressFullCompletes ==
    (ret.op = "Task.update_progress" /\ ret.arg >= 100) =>
        /\ After.status = COMPLETED
        /\ After.progress = 100
        /\ (ret.before.status # COMPLETED => After.completed_at = ret.at)

C6_Witness ==
    /\ ret.op = "Task.update_progress" /\ ret.arg >= 100
    /\ ret.before.status = FAILED /\ ret.before.progress = 50
    /\ After.status = COMPLETED /\ After.completed_at = ret.at

\* C7: started_at is stamped by the first update_status(EXECUTING), is never
\* changed once set (re-entering EXECUTING keeps it), and stays unset under
\* every call that is not update_status(EXECUTING), update_status(COMPLETED)
\* included.
C7_StartedAtStampedOnce ==
    ret.op \in {"Task.update_status", "Task.update_progress"} =>
        /\ ret.before.started_at # NoTime =>
               After.started_at = ret.before.started_at
        /\ (ret.before.started_at = NoTime /\ ret.op = "Task.update_status"
              /\ ret.arg = EXECUTING) => After.started_at = ret.at
        /\ (ret.before.started_at = NoTime
              /\ ~(ret.op = "Task.update_status" /\ ret.arg = EXECUTING)) =>
               After.started_at = NoTime

C7_Witness ==
    /\ ret.op = "Task.update_status" /\ ret.arg = EXECUTING
    /\ ret.before.status = COMPLETED
    /\ ret.before.started_at # NoTime
    /\ After.started_at = ret.before.started_at
    /\ After.started_at < ret.at

\* C8: update_status(new) is accepted from every current status, sets
\* status = new and stamps updated_at; COMPLETED stamps completed_at and
\* forces progress 100; FAILED stamps completed_at and keeps progress;
\* PENDING, READY, EXECUTING and BLOCKED keep completed_at and progress.
C8_UpdateStatusContract ==
    /\ now <= MaxTime =>
          \A i \in DOMAIN tasks, s \in TaskStatus : ENABLED TaskUpdateStatus(i, s)
    /\ ret.op = "Task.update_status" =>
          /\ After.status = ret.arg
          /\ After.updated_at = ret.at
          /\ ret.arg = COMPLETED =>
                 After.completed_at = ret.at /\ After.progress = 100
          /\ ret.arg = FAILED =>
                 /\ After.completed_at = ret.at
                 /\ After.progress = ret.before.progress
          /\ ret.arg \in {PENDING, READY, EXECUTING, BLOCKED} =>
                 /\ After.completed_at = ret.before.completed_at
                 /\ After.progress = ret.before.progress

C8_Witness ==
    /\ ret.op = "Task.update_status" /\ ret.arg = FAILED
    /\ ret.before.status = COMPLETED /\ ret.before.progress = 50
    /\ After.status = FAILED /\ After.progress = 50
    /\ After.completed_at = ret.at
    /\ ret.before.completed_at # ret.at

\* C9: update_progress(v) sets progress to max(0, min(100, v)), and progress
\* stays within 0..100 under any sequence of update_progress and
\* update_status calls.
C9_ProgressClamped ==
    /\ \A i \in DOMAIN tasks : tasks[i].progress \in 0..100
    /\ ret.op = "Task.update_progress" =>
          After.progress = (IF ret.arg < 0 THEN 0
                            ELSE IF ret.arg > 100 THEN 100 ELSE ret.arg)

C9_Witness ==
    /\ ret.op = "Task.update_progress" /\ ret.arg > 100
    /\ ret.before.progress = 0 /\ ret.before.status = EXECUTING
    /\ After.progress = 100

----------------------------------------------------------------------------
(* Claims about the Validator                                               *)

\* the ids of the COMPLETED tasks of the plan
CompletedIds == {tasks[j].id : j \in {k \in DOMAIN tasks : tasks[k].status = COMPLETED}}

\* every id of t.requires is the id of a COMPLETED task
RequiresMet(t) == \A k \in DOMAIN t.requires : t.requires[k] \in CompletedIds

\* C1: check_task_ready_to_execute(t, allTasks) is ready exactly when t.status
\* is none of COMPLETED, FAILED, BLOCKED and every id of t.requires is the id
\* of a COMPLETED task of allTasks (so a task without requires is ready unless
\* its status is one of the three), and its reason is absent exactly when it
\* is ready.
C1_ReadyIffStatusAndRequires ==
    ret.op = "check_task_ready_to_execute" =>
        LET t == tasks[ret.task]
        IN  /\ ret.result.ready <=>
                  (t.status \notin {COMPLETED, FAILED, BLOCKED} /\ RequiresMet(t))
            /\ Len(t.requires) = 0 =>
                  (ret.result.ready <=> t.status \notin {COMPLETED, FAILED, BLOCKED})
            /\ (ret.result.reason = None) <=> ret.result.ready

C1_Witness ==
    /\ ret.op = "check_task_ready_to_execute"
    /\ Len(tasks) = 2
    /\ tasks[ret.task].status = EXECUTING
    /\ tasks[ret.task].requires = <<Ghost>>
    /\ ~ret.result.ready
    /\ ret.result.reason = "Dependency tx not found"

\* the requires edges between tasks of the list, as pairs of ids
Edges == {e \in {tasks[k].id : k \in DOMAIN tasks} \X {tasks[k].id : k \in DOMAIN tasks} :
             \E k \in DOMAIN tasks : tasks[k].id = e[1] /\ InList(tasks[k].requires, e[2])}

\* the ids required by some task whose id is in X
Required(X) ==
    UNION {{tasks[k].requires[j] : j \in DOMAIN tasks[k].requires} :
              k \in {i \in DOMAIN tasks : tasks[i].id \in X}}

\* the ids reached from X along one or more requires edges
RECURSIVE ReachFrom(_)
ReachFrom(X) ==
    LET next == X \cup Required(X)
    IN  IF next = X THEN X ELSE ReachFrom(next)

\* the ids of the tasks that lie on a requires-cycle
OnCycle == {a \in {tasks[k].id : k \in DOMAIN tasks} : a \in ReachFrom(Required({a}))}

IsCircularError(e) == e.severity = "error" /\ "cycle" \in DOMAIN e.context

\* C2: when the requires edges contain a cycle, detect_circular_dependencies
\* returns at least one non-empty cycle, validate_task_dependencies of every
\* task whose id appears in a returned cycle holds a circular-dependency
\* ERROR, and validate_plan is not valid.
C2_CycleDetectedAndFlagged ==
    OnCycle # {} =>
        /\ ret.op = "detect_circular_dependencies" =>
              /\ Len(ret.result) >= 1
              /\ \A k \in DOMAIN ret.result : Len(ret.result[k]) > 0
        /\ ret.op = "validate_task_dependencies" =>
              LET cycles == detect_circular_dependencies(tasks)
              IN  (\E k \in DOMAIN cycles : InList(cycles[k], tasks[ret.task].id))
                  => /\ \E k \in DOMAIN ret.result.errors :
                           IsCircularError(ret.result.errors[k])
                     /\ ~ret.result.is_valid
        /\ ret.op = "validate_plan" => ~ret.result.is_valid

C2_Witness ==
    /\ ret.op = "validate_plan"
    /\ Len(tasks) = 2
    /\ tasks[1].requires = <<IdOf(2)>>
    /\ tasks[2].requires = <<IdOf(1)>>
    /\ ~ret.result.is_valid
    /\ detect_circular_dependencies(tasks) = <<<<IdOf(1), IdOf(2), IdOf(1)>>>>

\* C3: every cycle returned by detect_circular_dependencies is a closed walk
\* of the requires graph: it starts and ends with the same id and each of
\* its ids lists the next one in its requires.
C3_CyclesAreClosedWalks ==
    ret.op = "detect_circular_dependencies" =>
        \A k \in DOMAIN ret.result :
            LET c == ret.result[k]
            IN  /\ Len(c) >= 2
                /\ c[1] = c[Len(c)]
                /\ \A i \in 1..(Len(c) - 1) : <<c[i], c[i + 1]>> \in Edges

\* the position in the plan's task list of the task with this id
PosOf(id) == CHOOSE k \in DOMAIN tasks : tasks[k].id = id

\* the rank of a priority the specification states
Rank(priority) ==
    CASE priority = CRITICAL -> 0 [] priority = HIGH -> 1
      [] priority = MEDIUM -> 2 [] priority = LOW -> 3

\* C4: suggest_next_tasks returns its tasks in non-decreasing (priority rank,
\* order) with rank critical=0, high=1, medium=2, low=3, and returned tasks
\* of equal (priority, order) keep the relative order of the plan's list.
C4_SuggestSortedStable ==
    ret.op = "suggest_next_tasks" =>
        \A i \in DOMAIN ret.result, j \in DOMAIN ret.result :
            i < j =>
                LET a == ret.result[i]
                    b == ret.result[j]
                IN  /\ \/ Rank(a.priority) < Rank(b.priority)
                       \/ Rank(a.priority) = Rank(b.priority) /\ a.order <= b.order
                    /\ (a.priority = b.priority /\ a.order = b.order) =>
                           PosOf(a.id) < PosOf(b.id)

C4_Witness ==
    /\ ret.op = "suggest_next_tasks"
    /\ Len(tasks) = 3 /\ Len(ret.result) = 3
    /\ tasks[1].priority = LOW /\ tasks[2].priority = CRITICAL
    /\ tasks[3].priority = CRITICAL
    /\ tasks[2].order = tasks[3].order
    /\ ret.result = <<tasks[2], tasks[3], tasks[1]>>

\* C5: suggest_next_tasks returns, each exactly once, precisely the tasks
\* that check_task_ready_to_execute reports ready: none that is COMPLETED,
\* FAILED or BLOCKED or has a requires id that is not COMPLETED; and it
\* leaves the plan, every task and the order of the plan's list unchanged.
C5_SuggestExactlyReady ==
    ret.op = "suggest_next_tasks" =>
        /\ \A k \in DOMAIN tasks :
              Cardinality({i \in DOMAIN ret.result : ret.result[i] = tasks[k]})
                  = IF check_task_ready_to_execute(tasks[k], tasks).ready
                    THEN 1 ELSE 0
        /\ \A i \in DOMAIN ret.result :
              /\ \E k \in DOMAIN tasks : ret.result[i] = tasks[k]
              /\ ret.result[i].status \notin {COMPLETED, FAILED, BLOCKED}
              /\ RequiresMet(ret.result[i])
        /\ <<plan, tasks>> = ret.before

C5_Witness ==
    /\ ret.op = "suggest_next_tasks"
    /\ Len(tasks) = 3 /\ Len(ret.result) = 1
    /\ tasks[1].status = BLOCKED
    /\ tasks[2].status = READY /\ tasks[2].requires = <<IdOf(1)>>
    /\ ret.result = <<tasks[3]>>

----------------------------------------------------------------------------
(* Claims about the Plan (SpecPlan)                                         *)

\* round(100 * count / total) as Python rounds: to the nearest integer, a
\* tie to the even one
RoundedPercent(count, total) ==
    LET q == (100 * count) \div total
        r2 == 2 * ((100 * count) % total)
    IN  IF r2 < total THEN q
        ELSE IF r2 > total THEN q + 1
        ELSE IF q % 2 = 0 THEN q ELSE q + 1

\* C10 as stated: Plan.update_progress() sets progress to
\* round(100 * completed / total), and to 0 when the plan has no tasks.
C10_ProgressRounded ==
    ret.op = "Plan.update_progress" =>
        plan.progress = IF Len(tasks) = 0 THEN 0
                        ELSE RoundedPercent(completed_count(tasks), Len(tasks))

\* C10 amended: Plan.update_progress() sets progress to the percentage
\* 100 * completed / total truncated to an integer (2 of 3 gives 66), and to
\* 0 when the plan has no tasks.
C10_ProgressTruncated ==
    ret.op = "Plan.update_progress" =>
        LET done == Cardinality({k \in DOMAIN tasks : tasks[k].status = COMPLETED})
        IN  /\ Len(tasks) = 0 => plan.progress = 0
            /\ Len(tasks) > 0 =>
                  /\ plan.progress * Len(tasks) <= 100 * done
                  /\ 100 * done < (plan.progress + 1) * Len(tasks)

C10_Witness ==
    /\ ret.op = "Plan.update_progress"
    /\ Len(tasks) = 3
    /\ Cardinality({k \in DOMAIN tasks : tasks[k].status = COMPLETED}) = 2
    /\ plan.progress = 66

\* C11: Plan.update_progress() on a plan with at least one task leaves the
\* plan COMPLETED, with progress 100 and completed_at stamped, when every
\* task is COMPLETED, whatever the prior status (FAILED and CANCELLED
\* included); when some task is not COMPLETED, or the plan has no tasks, it
\* leaves the status as it was.
C11_AllCompletedCompletesPlan ==
    ret.op = "Plan.update_progress" =>
        IF Len(tasks) >= 1 /\ \A k \in DOMAIN tasks : tasks[k].status = COMPLETED
        THEN /\ plan.status = COMPLETED
             /\ plan.progress = 100
             /\ plan.completed_at # NoTime
             /\ ret.before.status # COMPLETED => plan.completed_at = ret.at
        ELSE plan.status = ret.before.status

\* C12: Plan.update_progress() called twice in a row, with no task changed in
\* between, leaves the progress and the status the first call left.
C12_UpdateProgressIdempotent ==
    (ret.op = "Plan.update_progress" /\ ret.prev = "Plan.update_progress") =>
        /\ plan.progress = ret.before.progress
        /\ plan.status = ret.before.status

C12_Witness ==
    /\ ret.op = "Plan.update_progress" /\ ret.prev = "Plan.update_progress"
    /\ Len(tasks) = 3 /\ completed_count(tasks) = 1
    /\ plan.progress = 33 /\ plan.status = FAILED
    /\ plan.updated_at > ret.before.updated_at

\* C14: Plan.approve(by) can be called in every plan status; it leaves status
\* APPROVED, is_approved true, approved_by = by and approved_at stamped, and
\* leaves progress, started_at, completed_at and the task list as they were.
C14_ApproveFromAnyStatus ==
    /\ now <= MaxPlanTime => ENABLED PlanApprove("alice")
    /\ ret.op = "Plan.approve" =>
          /\ plan.status = APPROVED
          /\ plan.is_approved
          /\ plan.approved_by = ret.arg
          /\ plan.approved_at = ret.at
          /\ plan.progress = ret.before.progress
          /\ plan.started_at = ret.before.started_at
          /\ plan.completed_at = ret.before.completed_at
          /\ tasks = ret.tasks_before

C14_Witness ==
    /\ ret.op = "Plan.approve" /\ ret.arg = "alice"
    /\ ret.before.status = COMPLETED /\ ret.before.progress = 100
    /\ ret.before.completed_at # NoTime /\ ~ret.before.is_approved
    /\ plan.status = APPROVED /\ plan.is_approved
    /\ plan.progress = 100 /\ Len(tasks) = 2

\* C15: Plan.update_status(s) stamps started_at on the first entry into
\* EXECUTING and no call overwrites it afterwards; COMPLETED stamps
\* completed_at and sets progress 100; FAILED and CANCELLED stamp
\* completed_at and leave progress; DRAFT, PENDING and APPROVED change
\* neither completed_at nor progress.
C15_PlanUpdateStatusContract ==
    /\ ret.op \in {"Plan.update_status", "Plan.approve", "Plan.update_progress"} =>
          (ret.before.started_at # NoTime => plan.started_at = ret.before.started_at)
    /\ ret.op = "Plan.update_status" =>
          /\ plan.status = ret.arg
          /\ (ret.arg = EXECUTING /\ ret.before.started_at = NoTime) =>
                plan.started_at = ret.at
          /\ ret.arg # EXECUTING => plan.started_at = ret.before.started_at
          /\ ret.arg = COMPLETED =>
                plan.completed_at = ret.at /\ plan.progress = 100
          /\ ret.arg \in {FAILED, CANCELLED} =>
                plan.completed_at = ret.at /\ plan.progress = ret.before.progress
          /\ ret.arg \in {DRAFT, PENDING, APPROVED} =>
                /\ plan.completed_at = ret.before.completed_at
                /\ plan.progress = ret.before.progress

C15_Witness ==
    /\ ret.op = "Plan.update_status" /\ ret.arg = EXECUTING
    /\ ret.before.status = CANCELLED
    /\ ret.before.started_at # NoTime
    /\ ret.before.completed_at > ret.before.started_at
    /\ plan.started_at = ret.before.started_at
    /\ plan.started_at < ret.at

----------------------------------------------------------------------------
(* Claims about a Plan and the tasks it owns (SpecOwned)                    *)

\* the plan as it was before the last call
PlanBefore ==
    IF ret.op \in {"Task.update_status", "Task.update_progress"}
    THEN ret.plan_before ELSE ret.before

\* C13: Task.update_status and Task.update_progress on a task of a plan
\* leave the plan's progress, status, started_at and completed_at as they
\* were; the plan's stored progress changes only in a call of
\* Plan.update_progress() or of Plan.update_status(COMPLETED).
C13_TaskCallsLeavePlan ==
    /\ ret.op \in {"Task.update_status", "Task.update_progress"} =>
          /\ plan.progress = ret.plan_before.progress
          /\ plan.status = ret.plan_before.status
          /\ plan.started_at = ret.plan_before.started_at
          /\ plan.completed_at = ret.plan_before.completed_at
    /\ (ret.op # "none" /\ plan.progress # PlanBefore.progress) =>
          \/ ret.op = "Plan.update_progress"
          \/ ret.op = "Plan.update_status" /\ ret.arg = COMPLETED

\* the stored progress is behind the tasks: the last task was completed
\* after the plan computed 50
C13_Witness ==
    /\ ret.op = "Task.update_status" /\ ret.arg = COMPLETED
    /\ Len(tasks) = 2 /\ \A k \in DOMAIN tasks : tasks[k].status = COMPLETED
    /\ ret.before.status # COMPLETED
    /\ plan.progress = 50 /\ plan.status = DRAFT
    /\ int_percent(completed_count(tasks), Len(tasks)) = 100

----------------------------------------------------------------------------
(* Claims about validation (SpecValidate)                                   *)

\* the ids of the tasks of the plan
TaskIds == {tasks[k].id : k \in DOMAIN tasks}

\* some character of the name is not white space
NameGiven == \E k \in DOMAIN plan.name : plan.name[k] \notin Whitespace

\* every id of every requires and blocks list is the id of a task
NoMissingId ==
    \A k \in DOMAIN tasks :
        /\ \A j \in DOMAIN tasks[k].requires : tasks[k].requires[j] \in TaskIds
        /\ \A j \in DOMAIN tasks[k].blocks : tasks[k].blocks[j] \in TaskIds

\* no task's id appears in a cycle that detect_circular_dependencies returns
NoTaskInDetectedCycle ==
    LET cycles == detect_circular_dependencies(tasks)
    IN  \A k \in DOMAIN tasks, c \in DOMAIN cycles : ~InList(cycles[c], tasks[k].id)

\* C16: validate_plan(plan).is_valid is true exactly when the error list is
\* empty, which is exactly when the name is not blank, no task has a
\* requires or blocks id that is missing from the plan, and no task's id
\* appears in a detected cycle; status inconsistencies, zero tasks, empty
\* objectives or deliverables and more than 10 requires give warnings only.
C16_ValidIffNoErrors ==
    ret.op = "validate_plan" =>
        LET r == ret.result
        IN  /\ r.is_valid <=> Len(r.errors) = 0
            /\ Len(r.errors) = 0 <=>
                  (NameGiven /\ NoMissingId /\ NoTaskInDetectedCycle)
            /\ \A k \in DOMAIN r.errors :
                  /\ r.errors[k].severity = "error"
                  /\ DOMAIN r.errors[k].context \cap
                        {"plan_id", "missing_dependency", "missing_blocked", "cycle"} # {}
            /\ \A k \in DOMAIN r.warnings : r.warnings[k].severity = "warning"

\* a valid plan with four warnings: all tasks completed in a DRAFT plan,
\* eleven requires, no objectives, no deliverables
C16_Witness ==
    /\ ret.op = "validate_plan"
    /\ Len(tasks) = 2 /\ Len(tasks[2].requires) = 11
    /\ \A k \in DOMAIN tasks : tasks[k].status = COMPLETED
    /\ plan.status = DRAFT /\ plan.objectives = <<>>
    /\ ret.result.is_valid
    /\ Len(ret.result.warnings) = 4

\* the warnings of the last validate_plan call that report all tasks
\* completed, and those that report some task failed
AllCompletedWarnings ==
    {k \in DOMAIN ret.result.warnings :
        \E st \in PlanStatus : ret.result.warnings[k].message =
            "Plan " \o str_of(plan.name)
                \o ": All tasks completed but plan status is " \o str(st)}

SomeFailedWarnings ==
    {k \in DOMAIN ret.result.warnings :
        \E st \in PlanStatus : ret.result.warnings[k].message =
            "Plan " \o str_of(plan.name)
                \o ": Some tasks failed but plan status is " \o str(st)}

NoTasksWarnings ==
    {k \in DOMAIN ret.result.warnings :
        ret.result.warnings[k].message = "Plan " \o str_of(plan.name) \o " has no tasks"}

\* C17: for a plan with at least one task, validate_plan gives the
\* 'all tasks completed' warning exactly when every task is COMPLETED and the
\* plan is neither COMPLETED nor CANCELLED, and the 'some tasks failed'
\* warning exactly when some task is FAILED and the plan is neither FAILED
\* nor CANCELLED; for a plan with no tasks it gives the 'no tasks' warning
\* and neither of the two.
C17_StatusConsistencyWarnings ==
    ret.op = "validate_plan" =>
        IF Len(tasks) >= 1
        THEN /\ AllCompletedWarnings # {} <=>
                   /\ \A k \in DOMAIN tasks : tasks[k].status = COMPLETED
                   /\ plan.status \notin {COMPLETED, CANCELLED}
             /\ SomeFailedWarnings # {} <=>
                   /\ \E k \in DOMAIN tasks : tasks[k].status = FAILED
                   /\ plan.status \notin {FAILED, CANCELLED}
             /\ NoTasksWarnings = {}
        ELSE /\ NoTasksWarnings # {}
             /\ AllCompletedWarnings = {} /\ SomeFailedWarnings = {}

C17_Witness ==
    /\ ret.op = "validate_plan"
    /\ Len(tasks) = 2 /\ \A k \in DOMAIN tasks : tasks[k].status = COMPLETED
    /\ plan.status = FAILED
    /\ AllCompletedWarnings # {} /\ SomeFailedWarnings = {}
    /\ ret.result.warnings[1].message =
          "Plan " \o str_of(plan.name) \o ": All tasks completed but plan status is failed"

\* the ids reported missing by the errors of the last call, in order: those
\* of requires entries and those of blocks entries
MissingDependencyIds ==
    LET errs == SelectSeq(ret.result.errors,
                          LAMBDA e : "missing_dependency" \in DOMAIN e.context)
    IN  [k \in DOMAIN errs |-> errs[k].context.missing_dependency]

MissingBlockedIds ==
    LET errs == SelectSeq(ret.result.errors,
                          LAMBDA e : "missing_blocked" \in DOMAIN e.context)
    IN  [k \in DOMAIN errs |-> errs[k].context.missing_blocked]

\* C18: validate_task_dependencies(t, allTasks) holds one ERROR for each
\* entry of t.requires and one for each entry of t.blocks whose id is no
\* task's id, and none for an id that is present; it returns a result and
\* raises no exception, for every input.
C18_OneErrorPerMissingEntry ==
    ret.op = "validate_task_dependencies" =>
        /\ ret.raised = None
        /\ LET t == tasks[ret.task]
           IN  /\ MissingDependencyIds
                     = SelectSeq(t.requires, LAMBDA x : x \notin TaskIds)
               /\ MissingBlockedIds
                     = SelectSeq(t.blocks, LAMBDA x : x \notin TaskIds)

----------------------------------------------------------------------------
(* Claims about blocked tasks (SpecReady)                                   *)

\* the task is BLOCKED, or is none of COMPLETED, FAILED, BLOCKED and has a
\* requires id that is not the id of a COMPLETED task of the list
BlockedOrUnmet(t) ==
    \/ t.status = BLOCKED
    \/ t.status \notin {COMPLETED, FAILED, BLOCKED} /\ ~RequiresMet(t)

\* C19: find_blocked_tasks returns, in input order, exactly the BLOCKED
\* tasks and the tasks that are none of COMPLETED, FAILED, BLOCKED and have
\* a requires id that is not a COMPLETED task of the list, whether the id is
\* that of an unfinished task or of no task; COMPLETED and FAILED tasks are
\* never returned.
C19_BlockedExactlyUnmet ==
    ret.op = "find_blocked_tasks" =>
        /\ [k \in DOMAIN ret.result |-> ret.result[k][1]]
              = SelectSeq(tasks, BlockedOrUnmet)
        /\ \A k \in DOMAIN ret.result :
              ret.result[k][1].status \notin {COMPLETED, FAILED}

----------------------------------------------------------------------------
(* Claims about the storage of a Plan's tasks (SpecStore)                   *)

\* C20: Plan.add_task(task) on a plan with no configuration attached raises
\* at once and leaves the task list, updated_at and the task files as they
\* were; a plan that has no configuration yet holds no task.
C20_AddTaskNeedsConfig ==
    /\ (ret.op = "Plan.add_task" /\ ret.before._config = None) =>
          /\ ret.raised = "ValueError"
          /\ tasks = ret.tasks_before
          /\ plan.updated_at = ret.before.updated_at
          /\ plan = ret.before
          /\ disk = ret.disk_before
    /\ plan._config = None => Len(tasks) = 0

C20_Witness ==
    /\ ret.op = "Plan.add_task" /\ ret.before._config = None
    /\ ret.task.id = IdOf(1) /\ ret.task.status = COMPLETED
    /\ ret.raised = "ValueError"
    /\ tasks = <<>> /\ disk = {} /\ plan._config = None

----------------------------------------------------------------------------
(* Invariants of a Task (SpecTask)                                          *)

\* C28: in every state reached from a newly created Task by update_status
\* and update_progress calls, status COMPLETED implies progress 100.
C28_CompletedImpliesFull ==
    \A i \in DOMAIN tasks : tasks[i].status = COMPLETED => tasks[i].progress = 100

\* C29: in every state reached from a newly created Task by update_status
\* and update_progress calls, status EXECUTING implies started_at is set,
\* and status COMPLETED or FAILED implies completed_at is set.
C29_StatusImpliesStamp ==
    \A i \in DOMAIN tasks :
        /\ tasks[i].status = EXECUTING => tasks[i].started_at # NoTime
        /\ tasks[i].status \in {COMPLETED, FAILED} => tasks[i].completed_at # NoTime

\* COMPLETED reached through update_progress alone, never EXECUTING
C29_Witness ==
    /\ ret.op = "Task.update_progress" /\ ret.arg = 100
    /\ ret.before.status = PENDING /\ ret.before.completed_at = NoTime
    /\ After.status = COMPLETED /\ After.completed_at = ret.at
    /\ After.started_at = NoTime

----------------------------------------------------------------------------
(* Claims about cycle detection on acyclic and on multi-cycle graphs        *)
(* (SpecGraph)                                                              *)

\* C26: when the requires graph has no cycle (requires ids of no task
\* allowed), detect_circular_dependencies returns the empty list and
\* validate_task_dependencies holds no circular-dependency ERROR; the result
\* of detect_circular_dependencies is non-empty exactly when the graph has a
\* cycle.
C26_AcyclicGivesNoCycle ==
    /\ ret.op = "detect_circular_dependencies" =>
          (Len(ret.result) > 0 <=> OnCycle # {})
    /\ (ret.op = "validate_task_dependencies" /\ OnCycle = {}) =>
          \A k \in DOMAIN ret.result.errors : ~IsCircularError(ret.result.errors[k])

\* an acyclic diamond with a dangling id: t1 requires t2 and t3, t2 requires
\* t3, t3 requires the ghost
C26_Witness ==
    /\ ret.op = "detect_circular_dependencies"
    /\ Len(tasks) = 3
    /\ tasks[1].requires = <<IdOf(2), IdOf(3)>>
    /\ tasks[2].requires = <<IdOf(3)>>
    /\ tasks[3].requires = <<Ghost>>
    /\ OnCycle = {}
    /\ ret.result = <<>>

\* C27: every task that lies on a requires-cycle (a task that requires
\* itself included) gets a circular-dependency ERROR from
\* validate_task_dependencies, also when the graph has several cycles.
C27_EveryCycleTaskFlagged ==
    (ret.op = "validate_task_dependencies" /\ tasks[ret.task].id \in OnCycle) =>
        \E k \in DOMAIN ret.result.errors : IsCircularError(ret.result.errors[k])

----------------------------------------------------------------------------
(* Claims about the requires and blocks lists (SpecDeps)                    *)

NoDuplicates(seq) == \A j, k \in DOMAIN seq : seq[j] = seq[k] => j = k

\* C23: add_dependency, remove_dependency and add_blocker change only the
\* receiver's own requires or blocks list and its updated_at: every other
\* task is left as it was, so A.add_dependency(B) puts nothing into
\* B.blocks; add_dependency and add_blocker are idempotent and never
\* introduce a duplicate id; none of them rejects the receiver's own id or
\* the id of no task.
C23_DependencyEditsAreLocal ==
    /\ \A i \in DOMAIN tasks :
          NoDuplicates(tasks[i].requires) /\ NoDuplicates(tasks[i].blocks)
    /\ ret.op \in {"Task.add_dependency", "Task.add_blocker",
                   "Task.remove_dependency"} =>
          LET b == ret.before[ret.task]
          IN  /\ \A j \in DOMAIN tasks : j # ret.task => tasks[j] = ret.before[j]
              /\ [After EXCEPT !.requires = b.requires, !.blocks = b.blocks,
                               !.updated_at = b.updated_at] = b
              /\ ret.op = "Task.add_dependency" =>
                    /\ After.blocks = b.blocks
                    /\ After.requires = IF InList(b.requires, ret.arg) THEN b.requires
                                        ELSE Append(b.requires, ret.arg)
                    /\ Task_add_dependency(After, ret.arg) = After
              /\ ret.op = "Task.add_blocker" =>
                    /\ After.requires = b.requires
                    /\ After.blocks = IF InList(b.blocks, ret.arg) THEN b.blocks
                                      ELSE Append(b.blocks, ret.arg)
                    /\ Task_add_blocker(After, ret.arg) = After
              /\ ret.op = "Task.remove_dependency" =>
                    /\ After.blocks = b.blocks
                    /\ ~InList(After.requires, ret.arg)
                    /\ \A x \in DepIds \ {ret.arg} :
                          InList(After.requires, x) <=> InList(b.requires, x)

\* t1 requires itself and then a task that does not exist, while t2 requires
\* t1 and blocks nothing
C23_Witness ==
    /\ ret.op = "Task.add_dependency" /\ ret.task = 1 /\ ret.arg = Ghost
    /\ Len(tasks) = 2
    /\ ret.before[1].requires = <<IdOf(1)>>
    /\ tasks[1].requires = <<IdOf(1), Ghost>>
    /\ tasks[1].updated_at = ret.at
    /\ tasks[2].requires = <<IdOf(1)>> /\ tasks[2].blocks = <<>>
    /\ tasks[1].blocks = <<>>

\* the ids of the tasks that have a task file, and of the tasks in memory
PersistedIds ==
    {f.data.metadata.id : f \in {g \in disk : g.name \notin {TasksDir.name, PlanFile}}}
MemoryIds == {tasks[k].id : k \in DOMAIN tasks}

\* C21: after any sequence of add_task and remove_task calls on a plan with
\* a configuration, the ids that have a task file are the ids of the tasks
\* in memory: add_task saves the task it adds, remove_task(id) removes the
\* task from memory, deletes its file and returns true, and remove_task of
\* an id of no task returns false and changes nothing.
C21_DiskMirrorsMemory ==
    /\ plan._config # None => PersistedIds = MemoryIds
    /\ (ret.op = "Plan.add_task" /\ ret.raised = None) =>
          /\ tasks = Append(ret.tasks_before, ret.task)
          /\ [name |-> get_task_file(ret.task.id), data |-> Task_to_dict(ret.task)]
                \in disk
    /\ ret.op = "Plan.remove_task" =>
          IF \E k \in DOMAIN ret.tasks_before : ret.tasks_before[k].id = ret.arg
          THEN /\ ret.result
               /\ Len(tasks) = Len(ret.tasks_before) - 1
               /\ ret.arg \notin PersistedIds
          ELSE /\ ~ret.result
               /\ tasks = ret.tasks_before /\ disk = ret.disk_before
               /\ plan = ret.before

----------------------------------------------------------------------------
(* Claims about serialisation (SpecSerial)                                  *)

\* C22: Task.from_dict(t.to_dict()) has the value of t in every field;
\* Plan.from_dict(p.to_dict()).to_dict() equals p.to_dict() in every group
\* but tasks_summary; statuses and priorities are written as their
\* lowercase string values; from_dict ignores a tasks_summary group.
C22_RoundTrip ==
    /\ ret.op = "Task.from_dict" =>
          /\ ret.raised = None
          /\ ret.result = tasks[ret.task]
          /\ ret.data.status.current \in
                {"pending", "ready", "executing", "completed", "failed", "blocked"}
          /\ ret.data.summary.priority \in {"critical", "high", "medium", "low"}
    /\ ret.op = "Plan.from_dict" =>
          /\ ret.raised = None
          /\ \A g \in DOMAIN ret.data \ {"tasks_summary"} : ret.again[g] = ret.data[g]
          /\ DOMAIN ret.again = DOMAIN ret.data
          /\ ret.data.status.current \in
                {"draft", "pending", "approved", "executing", "completed",
                 "failed", "cancelled"}
          /\ Plan_from_dict([g \in DOMAIN ret.data \ {"tasks_summary"} |-> ret.data[g]])
                = ret.result
          /\ Plan_from_dict([ret.data EXCEPT !.tasks_summary.total = 7]) = ret.result

\* a completed task read back later than it was created, with its
\* description, its estimate, its lists, its assignee, its artifact and its
\* notes
C22_Witness ==
    /\ ret.op = "Task.from_dict" /\ ret.task = 1
    /\ tasks[1].assigned_to = "bob" /\ tasks[1].artifacts = <<"out.txt">>
    /\ tasks[1].notes = "a\n\nb"
    /\ tasks[1].description # "" /\ tasks[1].estimated_hours = 3
    /\ tasks[1].status = COMPLETED /\ tasks[1].priority = HIGH
    /\ tasks[1].blocks = <<IdOf(1), Ghost>>
    /\ tasks[1].completed_at # NoTime /\ tasks[1].started_at # NoTime
    /\ now > tasks[1].created_at
    /\ ret.result = tasks[1]

\* an approved plan of version 2.1.0 with an author, tags and a brief, whose
\* record counts two tasks, read back without tasks
C22_PlanWitness ==
    /\ ret.op = "Plan.from_dict"
    /\ plan.version = "2.1.0" /\ plan.author = "alice" /\ plan.brief = "a brief"
    /\ plan.tags = <<"infra", "q3">>
    /\ ret.result.version = "2.1.0" /\ ret.result.tags = plan.tags
    /\ plan.is_approved /\ plan.approved_by = "alice" /\ plan.status = COMPLETED
    /\ ret.data.tasks_summary.total = 2 /\ ret.again.tasks_summary.total = 0
    /\ ret.again.status = ret.data.status

----------------------------------------------------------------------------
(* Claims about Plan.load_tasks (SpecLoad)                                  *)

\* the task files of the directory whose record loads
LoadableFiles ==
    {f \in disk : /\ \E i \in DOMAIN TaskFileNames : TaskFileNames[i] = f.name
                  /\ "data" \in DOMAIN f
                  /\ "scalar" \notin DOMAIN f.data
                  /\ \A g \in DOMAIN f.data : "scalar" \notin DOMAIN f.data[g]
                  /\ \E st \in TaskStatus : f.data.status.current = st.value
                  /\ \E pr \in TaskPriority : f.data.summary.priority = pr.value}

\* the place of a task file name in the sorted order of the names
NamePlace(name) == CHOOSE i \in DOMAIN TaskFileNames : TaskFileNames[i] = name

\* C24: Plan.load_tasks replaces the in-memory task list by exactly the
\* tasks read from the plan's task files that load, in sorted file-name
\* order: a file that fails to load is skipped without an exception and
\* without keeping any other file, before or after it, from being loaded,
\* and the tasks held before the call are dropped.
C24_LoadSkipsFailures ==
    ret.op = "Plan.load_tasks" =>
        /\ ret.raised = None
        /\ Len(tasks) = Cardinality(LoadableFiles)
        /\ \A f \in LoadableFiles :
              \E k \in DOMAIN tasks : Task_to_dict(tasks[k]) = f.data
        /\ \A j, k \in DOMAIN tasks :
              j < k => NamePlace(get_task_file(tasks[j].id))
                          < NamePlace(get_task_file(tasks[k].id))
        /\ plan._config = Config

\* a damaged file between two good ones, a foreign file, and a task in
\* memory that has no file
C24_Witness ==
    /\ ret.op = "Plan.load_tasks"
    /\ Len(ret.tasks_before) = 1 /\ ret.tasks_before[1].id = Ghost
    /\ ret.before._config = None
    /\ [name |-> "notes.txt", text |-> "notes"] \in disk
    /\ [name |-> get_task_file(IdOf(2)), text |-> "{"] \in disk
    /\ Len(tasks) = 2
    /\ tasks[1].id = IdOf(1) /\ tasks[1].status = COMPLETED
    /\ tasks[2].id = IdOf(3)

----------------------------------------------------------------------------
(* Claims about cycles under the start discipline (SpecDiscipline)          *)

\* the ids of the tasks that lie on a requires-cycle or require, directly or
\* through other tasks, a task that does
Unsatisfiable ==
    LET cycle == OnCycle
    IN  {a \in TaskIds : ReachFrom({a}) \cap cycle # {}}

\* no task that lies on a requires-cycle or transitively requires one is
\* COMPLETED
NoCycleTaskCompleted ==
    LET unsatisfiable == Unsatisfiable
    IN  \A k \in DOMAIN tasks :
            tasks[k].id \in unsatisfiable => tasks[k].status # COMPLETED

\* no such task is reported ready or suggested
NoCycleTaskReady ==
    LET unsatisfiable == Unsatisfiable
        suggested == suggest_next_tasks(tasks)
    IN  \A k \in DOMAIN tasks :
            tasks[k].id \in unsatisfiable =>
                /\ ~check_task_ready_to_execute(tasks[k], tasks).ready
                /\ \A j \in DOMAIN suggested : suggested[j].id # tasks[k].id

\* the discipline of task_start: a step moves a task to EXECUTING or
\* COMPLETED only when check_task_ready_to_execute reported it ready
DisciplinedStep ==
    \A k \in DOMAIN tasks :
        (tasks'[k] # tasks[k] /\ tasks'[k].status \in {EXECUTING, COMPLETED})
            => check_task_ready_to_execute(tasks[k], tasks).ready

\* a step leaves the ids and the requires lists as they are, and when no
\* task on or behind a cycle is COMPLETED and the step keeps the discipline,
\* none is COMPLETED after it
DisciplineKeepsCycleTasksOpen ==
    /\ DOMAIN tasks' = DOMAIN tasks
    /\ \A k \in DOMAIN tasks :
          tasks'[k].id = tasks[k].id /\ tasks'[k].requires = tasks[k].requires
    /\ (NoCycleTaskCompleted /\ DisciplinedStep) =>
          LET unsatisfiable == Unsatisfiable
          IN  \A k \in DOMAIN tasks :
                  tasks[k].id \in unsatisfiable => tasks'[k].status # COMPLETED

\* C25: starting from a plan without a COMPLETED task, when a task is moved
\* to EXECUTING or COMPLETED only while check_task_ready_to_execute reports
\* it ready, no task on a requires-cycle and no task that transitively
\* requires one is ever ready, suggested by suggest_next_tasks, or
\* COMPLETED: no task is COMPLETED at first, a step that keeps the
\* discipline completes no such task, and while none of them is COMPLETED
\* none is ready or suggested.
C25_CycleTasksNeverRun ==
    /\ \A k \in DOMAIN tasks : tasks[k].status # COMPLETED
    /\ [][DisciplineKeepsCycleTasksOpen]_vars
    /\ [](NoCycleTaskCompleted => NoCycleTaskReady)

\* the first task was ready and has been completed; the second, which
\* requires the first and itself, and the third, which requires the second,
\* are still not ready
C25_Witness ==
    /\ Len(tasks) = 3
    /\ ret.op = "Task.update_status" /\ ret.task = 1 /\ ret.arg = COMPLETED
    /\ ret.before.status = READY /\ ret.before.requires = <<>>
    /\ tasks[1].status = COMPLETED
    /\ tasks[2].requires = <<IdOf(1), IdOf(2)>>
    /\ tasks[3].requires = <<IdOf(2)>>
    /\ Unsatisfiable = {IdOf(2), IdOf(3)} /\ OnCycle = {IdOf(2)}
    /\ NoCycleTaskCompleted /\ NoCycleTaskReady
    /\ Len(suggest_next_tasks(tasks)) = 0

----------------------------------------------------------------------------
(* SpecFinish: the files of a saved plan of up to MaxFinishTasks tasks, the *)
(* plan DRAFT or CANCELLED, whose requires lists form no cycle and hold     *)
(* ids of its tasks only and whose tasks are PENDING, READY or COMPLETED,   *)
(* under the commands `pm task start` and `pm task complete` on any of its  *)
(* tasks.  A command that completes no further task is run up to the        *)
(* instant MaxFinishTime only                                               *)

\* requires lists over the ids of n tasks: empty, one id, or the first two
\* ids, such that some order of the tasks puts every task after the tasks
\* it requires
FinishReqs(n) ==
    LET ids == {IdOf(i) : i \in 1..n}
        lists == {<<>>} \cup {<<a>> : a \in ids}
                       \cup (IF n >= 2 THEN {<<IdOf(1), IdOf(2)>>} ELSE {})
    IN  {reqs \in [1..n -> lists] :
            \E rank \in [1..n -> 1..n] :
                \A i, j \in 1..n : InList(reqs[i], IdOf(j)) => rank[j] < rank[i]}

FinishTasks(n) ==
    {[i \in 1..n |-> InStatus(Task(IdOf(i), 0, TitleOf(i), MEDIUM, PENDING,
                                   reqs[i], <<>>), st[i])] :
        reqs \in FinishReqs(n), st \in [1..n -> {PENDING, READY, COMPLETED}]}

\* the files after every task was saved to its task file and the plan was
\* saved
RECURSIVE SavedTasks(_, _)
SavedTasks(plan_tasks, k) ==
    IF k = 0 THEN {TasksDir}
    ELSE Task_save(SavedTasks(plan_tasks, k - 1), plan_tasks[k],
                   get_task_file(plan_tasks[k].id))

InitFinish ==
    /\ now = 1
    /\ tasks = <<>>
    /\ plan = Plan(<<"p">>)
    /\ ret = NoCall
    /\ \E n \in 0..MaxFinishTasks :
       \E ts \in FinishTasks(n) :
       \E p \in {Plan(<<"p">>), Plan_update_status(Plan(<<"p">>), CANCELLED)} :
          disk = Plan_save(p, ts, SavedTasks(ts, n), Config).files

\* the plan and the tasks that Plan.load reads from the files
Stored == Plan_load(disk, Config)

\* `pm task complete` on a task that suggest_next_tasks returns for the
\* stored plan, as `pm validate` prints it
CompleteAnySuggested ==
    \E j \in DOMAIN suggest_next_tasks(Stored.tasks) :
        task_complete(suggest_next_tasks(Stored.tasks)[j].id)

NextFinish ==
    \/ \E i \in 1..MaxFinishTasks : now <= MaxFinishTime /\ task_start(IdOf(i))
    \/ \E i \in 1..MaxFinishTasks : now <= MaxFinishTime /\ task_complete(IdOf(i))
    \/ CompleteAnySuggested

SpecFinish == InitFinish /\ [][NextFinish]_vars

----------------------------------------------------------------------------
(* Claims about working a plan to its end (SpecFinish)                      *)

AllCompleted == \A k \in DOMAIN Stored.tasks : Stored.tasks[k].status = COMPLETED

\* C30: in a plan whose requires graph is acyclic and names no missing id
\* and that has no FAILED or BLOCKED task, suggest_next_tasks is non-empty
\* whenever some task is not COMPLETED; hence, when a suggested task is
\* completed again and again as long as there is one, every task is
\* eventually COMPLETED; update_progress on the tasks of the plan, all
\* COMPLETED, gives progress 100 and status COMPLETED, and `pm task
\* complete` has stored that when it completed the last one.
C30_SuggestionsFinishThePlan ==
    /\ [](~AllCompleted => Len(suggest_next_tasks(Stored.tasks)) > 0)
    /\ ( \/ []<>(Len(suggest_next_tasks(Stored.tasks)) = 0)
         \/ []<><<CompleteAnySuggested>>_vars ) => <>AllCompleted
    /\ []((AllCompleted /\ Len(Stored.tasks) > 0) =>
            LET p == Plan_update_progress(Stored.self, Stored.tasks)
            IN  p.progress = 100 /\ p.status = COMPLETED)
    /\ []((AllCompleted /\ ret.op = "task_complete" /\ ret.exit = 0) =>
            (Stored.self.progress = 100 /\ Stored.self.status = COMPLETED))

\* two tasks, the first requiring the second and completed after it by the
\* command, which stored the cancelled plan as COMPLETED
C30_Witness ==
    /\ Len(Stored.tasks) = 2
    /\ Stored.tasks[1].requires = <<IdOf(2)>>
    /\ AllCompleted
    /\ Stored.tasks[2].completed_at < Stored.tasks[1].completed_at
    /\ ret.op = "task_complete" /\ ret.exit = 0 /\ ret.task = IdOf(1)
    /\ Stored.self.status = COMPLETED /\ Stored.self.progress = 100
    /\ Stored.self.completed_at = Stored.tasks[1].completed_at

====
